---- MODULE Spec2Model ----
(***************************************************************************)
(* A model of wavetk: the streaming VCD parser (refill buffer, grammar,    *)
(* header parser, stream parser) and the state simulation built on it.     *)
(*                                                                         *)
(* A file is a sequence of bytes; a byte is a one-character string, and    *)
(* the string HighByte stands for any byte >= 128.  A parser of the        *)
(* grammar is a value built with nom's combinators, as in vcd.rs; Parse    *)
(* runs a parser on the live window of the buffer (a sequence of bytes)    *)
(* and returns a record [k, rest, v]: k is "ok" (rest is the remainder, v  *)
(* the value), "inc" (nom's Err::Incomplete), "err" (nom's Err::Error),    *)
(* "fail" (nom's Err::Failure) or "panic" (a Rust assertion failed inside  *)
(* the grammar).                                                           *)
(***************************************************************************)
EXTENDS Integers, Sequences, FiniteSets, TLC

\* ------------------------------------------------------------------------
\* Character classes
\* ------------------------------------------------------------------------

HighByte == "<80>"

Digits == {"0", "1", "2", "3", "4", "5", "6", "7", "8", "9"}

Letters ==
    {"a", "b", "c", "d", "e", "f", "g", "h", "i", "j", "k", "l", "m",
     "n", "o", "p", "q", "r", "s", "t", "u", "v", "w", "x", "y", "z",
     "A", "B", "C", "D", "E", "F", "G", "H", "I", "J", "K", "L", "M",
     "N", "O", "P", "Q", "R", "S", "T", "U", "V", "W", "X", "Y", "Z"}

\* nom's multispace: space, tab, carriage return, line feed
IsMultispace(c) == c \in {" ", "\t", "\r", "\n"}

\* char::is_whitespace restricted to ASCII: also form feed (and vertical tab)
IsWhitespace(c) == c \in {" ", "\t", "\r", "\n", "\f"}

\* u8::is_ascii_whitespace: space, tab, line feed, form feed, carriage return
IsAsciiWhitespace(c) == c \in {" ", "\t", "\n", "\f", "\r"}

IsAlphanumeric(c) == c \in (Letters \cup Digits)

IsDigit(c) == c \in Digits

BitChars == {"0", "1", "x", "X", "z", "Z", "u", "U", "w", "W"}

is_vcd_bit(c) == c \in BitChars

\* the predicates handed to take_till and take_till1 (the closures of
\* vcd.rs, and the ones nom's multispace, alphanumeric and digit stop at),
\* by name
Holds(p, c) ==
    CASE p = "NotMultispace" -> ~IsMultispace(c)
      [] p = "NotAlphanumeric" -> ~IsAlphanumeric(c)
      [] p = "NotDigit" -> ~IsDigit(c)
      [] p = "NotVcdBit" -> ~is_vcd_bit(c)
      [] p = "IsDollar" -> c = "$"
      [] p = "IsWhitespace" -> IsWhitespace(c)
      [] p = "IsWhitespaceOrBracket" -> IsWhitespace(c) \/ c = "["
      [] p = "NotAsciiWhitespace" -> ~IsAsciiWhitespace(c)

\* ------------------------------------------------------------------------
\* nom: results and combinators
\* ------------------------------------------------------------------------

Ok(rest, v) == [k |-> "ok", rest |-> rest, v |-> v]
Incomplete == [k |-> "inc", rest |-> <<>>, v |-> <<>>]
Error == [k |-> "err", rest |-> <<>>, v |-> <<>>]
Panic == [k |-> "panic", rest |-> <<>>, v |-> <<>>]
\* nom's Err::Failure (an error under cut), which alt and opt do not absorb
Failure == [k |-> "fail", rest |-> <<>>, v |-> <<>>]

Drop(w, n) == SubSeq(w, n + 1, Len(w))
Take(w, n) == SubSeq(w, 1, n)

\* position of the first byte of w that satisfies p, 0 when there is none
FindFirst(p, w) ==
    IF \E i \in 1..Len(w) : Holds(p, w[i])
    THEN CHOOSE i \in 1..Len(w) :
             Holds(p, w[i]) /\ \A j \in 1..(i - 1) : ~Holds(p, w[j])
    ELSE 0

\* a parser: the combinator, its argument and the parsers it is built from
Parser(op, arg, subs) == [op |-> op, arg |-> arg, subs |-> subs]

\* nom::character::streaming
char(c) == Parser("char", c, <<>>)
one_of(S) == Parser("one_of", S, <<>>)
none_of(S) == Parser("none_of", S, <<>>)
\* nom::bytes::streaming
tag(t) == Parser("tag", t, <<>>)
take(n) == Parser("take", n, <<>>)
take_till(p) == Parser("take_till", p, <<>>)
take_till1(p) == Parser("take_till1", p, <<>>)
multispace0 == take_till("NotMultispace")
multispace1 == take_till1("NotMultispace")
alphanumeric1 == take_till1("NotAlphanumeric")
digit1 == take_till1("NotDigit")
\* nom::combinator, nom::branch
opt(g) == Parser("opt", "", <<g>>)
peek(g) == Parser("peek", "", <<g>>)
cut(g) == Parser("cut", "", <<g>>)
recognize(g) == Parser("recognize", "", <<g>>)
map(g, f) == Parser("map", f, <<g>>)
map_res(g, f) == Parser("map_res", f, <<g>>)
alt(gs) == Parser("alt", "", gs)
\* nom::sequence
tuple(gs) == Parser("tuple", "", gs)
terminated(a, b) == map(tuple(<<a, b>>), "first")
preceded(a, b) == map(tuple(<<a, b>>), "second")
delimited(a, b, c) == map(tuple(<<a, b, c>>), "second")
separated_pair(a, s, b) == map(tuple(<<a, s, b>>), "outer")
\* a function of vcd.rs written as statements, by name
fn(name) == Parser("fn", name, <<>>)

\* the value of a run of decimal digits
RECURSIVE DecimalValue(_)
DecimalValue(ds) ==
    IF ds = <<>> THEN 0
    ELSE 10 * DecimalValue(Take(ds, Len(ds) - 1))
         + (CHOOSE d \in 0..9 : ToString(d) = ds[Len(ds)])

RECURSIVE StripZeros(_)
StripZeros(ds) ==
    IF Len(ds) > 1 /\ ds[1] = "0" THEN StripZeros(Tail(ds)) ELSE ds

\* a <= b for two digit runs of the same length
RECURSIVE DigitsLeq(_, _)
DigitsLeq(a, b) ==
    IF a = <<>> THEN TRUE
    ELSE IF a[1] = b[1] THEN DigitsLeq(Tail(a), Tail(b))
    ELSE DecimalValue(<<a[1]>>) < DecimalValue(<<b[1]>>)

\* whether from_str accepts the digit run: it must not exceed the type's
\* greatest value, given by its digits
FitsIn(ds, max) ==
    LET d == StripZeros(ds)
    IN  Len(d) < Len(max) \/ (Len(d) = Len(max) /\ DigitsLeq(d, max))

I64Max == <<"9", "2", "2", "3", "3", "7", "2", "0", "3", "6", "8", "5", "4",
            "7", "7", "5", "8", "0", "7">>
U64Max == <<"1", "8", "4", "4", "6", "7", "4", "4", "0", "7", "3", "7", "0",
            "9", "5", "5", "1", "6", "1", "5">>

\* VcdChange with its VcdValue: the kind of value vt and the text val
VcdChange(vt, val, id) == [var_id |-> id, vt |-> vt, val |-> val]

\* VcdCommand, its four variants in one record shape
ValueChange(ch) ==
    [t |-> "ValueChange", name |-> <<>>, c |-> 0, var_id |-> ch.var_id,
     vt |-> ch.vt, val |-> ch.val]
SetCycle(c) ==
    [t |-> "SetCycle", name |-> <<>>, c |-> c, var_id |-> <<>>,
     vt |-> "", val |-> <<>>]
Directive(name) ==
    [t |-> "Directive", name |-> name, c |-> 0, var_id |-> <<>>,
     vt |-> "", val |-> <<>>]
VcdEnd ==
    [t |-> "VcdEnd", name |-> <<>>, c |-> 0, var_id |-> <<>>,
     vt |-> "", val |-> <<>>]

\* the closures given to map and map_res, and the projections of the
\* sequence combinators, by name
MapFn(f, v) ==
    CASE f = "first" -> v[1]
      [] f = "second" -> v[2]
      [] f = "outer" -> <<v[1], v[3]>>
      [] f = "i64::from_str" -> DecimalValue(v)
      [] f = "u64::from_str" -> DecimalValue(v)
      [] f = "sign" -> (IF v[1] # <<>> THEN -1 ELSE 1) * v[2]
      [] f = "Range::Range" -> [t |-> "Range", a |-> v[1], b |-> v[2]]
      [] f = "Range::Bit" -> [t |-> "Bit", a |-> v, b |-> v]
      [] f = "VcdValue::Bit" -> VcdChange("Bit", <<v[1]>>, v[2])
      [] f = "VcdValue::Vector" -> VcdChange("Vector", v[1], v[2])
      [] f = "VcdValue::Real" -> VcdChange("Real", v[1], v[2])
      [] f = "VcdCommand::ValueChange" -> ValueChange(v)
      [] f = "VcdCommand::SetCycle" -> SetCycle(v)

\* whether the closure given to map_res returns Ok
MapAccepts(f, v) ==
    CASE f = "i64::from_str" -> FitsIn(v, I64Max)
      [] f = "u64::from_str" -> FitsIn(v, U64Max)
      [] OTHER -> TRUE

\* whether an assertion of the closure given to map fails
MapPanics(f, v) == f = "Range::Bit" /\ v < 0

RECURSIVE Parse(_, _)
RECURSIVE ParseTuple(_, _, _, _)
RECURSIVE ParseAlt(_, _, _)
RECURSIVE CallFn(_, _)

\* what a combinator over one parser returns, r being the parser's result.
\* opt: an error becomes None (the empty sequence) with the input untouched,
\* a value is wrapped in a one-element sequence; cut: an error becomes a
\* failure; map_res: an Err of the closure becomes an error
Combined(g, w, r) ==
    CASE g.op = "opt" ->
           IF r.k = "ok" THEN Ok(r.rest, <<r.v>>)
           ELSE IF r.k = "err" THEN Ok(w, <<>>)
           ELSE r
      [] g.op = "peek" -> IF r.k = "ok" THEN Ok(w, r.v) ELSE r
      [] g.op = "cut" -> IF r.k = "err" THEN Failure ELSE r
      [] g.op = "recognize" ->
           IF r.k = "ok" THEN Ok(r.rest, Take(w, Len(w) - Len(r.rest))) ELSE r
      [] g.op = "map" ->
           IF r.k # "ok" THEN r
           ELSE IF MapPanics(g.arg, r.v) THEN Panic
           ELSE Ok(r.rest, MapFn(g.arg, r.v))
      [] g.op = "map_res" ->
           IF r.k # "ok" THEN r
           ELSE IF ~MapAccepts(g.arg, r.v) THEN Error
           ELSE Ok(r.rest, MapFn(g.arg, r.v))

\* tuple: the parsers from the i-th on, acc holding the values so far
ParseTuple(gs, i, w, acc) ==
    IF i > Len(gs) THEN Ok(w, acc)
    ELSE LET r == Parse(gs[i], w)
         IN  IF r.k # "ok" THEN r
             ELSE ParseTuple(gs, i + 1, r.rest, Append(acc, r.v))

\* alt: the first parser from the i-th on that does not return an error
ParseAlt(gs, i, w) ==
    LET r == Parse(gs[i], w)
    IN  IF r.k = "err" /\ i < Len(gs) THEN ParseAlt(gs, i + 1, w) ELSE r

\* the run before the first byte satisfying the predicate, at position i
\* (0: there is none); a streaming parser then needs more input, a complete
\* one takes the whole of a non-empty input
SplitAt(i, w, one, complete) ==
    IF i = 0
    THEN (IF ~complete THEN Incomplete
          ELSE IF w = <<>> THEN Error ELSE Ok(<<>>, w))
    ELSE IF one /\ i = 1 THEN Error
    ELSE Ok(Drop(w, i - 1), Take(w, i - 1))

\* nom::bytes::streaming::tag: a mismatch is an error, a short match is
\* incomplete
TagResult(t, w) ==
    IF \E i \in 1..Len(t) : i <= Len(w) /\ w[i] # t[i] THEN Error
    ELSE IF Len(w) >= Len(t) THEN Ok(Drop(w, Len(t)), t)
    ELSE Incomplete

Parse(g, w) ==
    CASE g.op = "char" ->
           IF w = <<>> THEN Incomplete
           ELSE IF w[1] = g.arg THEN Ok(Tail(w), g.arg) ELSE Error
      [] g.op = "one_of" ->
           IF w = <<>> THEN Incomplete
           ELSE IF w[1] \in g.arg THEN Ok(Tail(w), w[1]) ELSE Error
      [] g.op = "none_of" ->
           IF w = <<>> THEN Incomplete
           ELSE IF w[1] \notin g.arg THEN Ok(Tail(w), w[1]) ELSE Error
      [] g.op = "tag" -> TagResult(g.arg, w)
      [] g.op = "take" ->
           IF Len(w) < g.arg THEN Incomplete
           ELSE Ok(Drop(w, g.arg), Take(w, g.arg))
      [] g.op = "take_till" -> SplitAt(FindFirst(g.arg, w), w, FALSE, FALSE)
      [] g.op = "take_till1" -> SplitAt(FindFirst(g.arg, w), w, TRUE, FALSE)
      [] g.op = "complete::multispace1" ->
           SplitAt(FindFirst("NotMultispace", w), w, TRUE, TRUE)
      [] g.op \in {"opt", "peek", "cut", "recognize", "map", "map_res"} ->
           Combined(g, w, Parse(g.subs[1], w))
      [] g.op = "tuple" -> ParseTuple(g.subs, 1, w, <<>>)
      [] g.op = "alt" -> ParseAlt(g.subs, 1, w)
      [] g.op = "fn" -> CallFn(g.arg, w)

\* nom::number::streaming::recognize_float
recognize_float ==
    recognize(tuple(<<
        opt(alt(<<char("+"), char("-")>>)),
        alt(<<tuple(<<digit1, opt(tuple(<<char("."), opt(digit1)>>))>>),
              tuple(<<char("."), digit1>>)>>),
        opt(tuple(<<alt(<<char("e"), char("E")>>),
                    opt(alt(<<char("+"), char("-")>>)),
                    cut(digit1)>>))>>))

\* ------------------------------------------------------------------------
\* Grammar (vcd.rs)
\* ------------------------------------------------------------------------

\* complete multispace1: at least one whitespace, satisfied by end of input
fill_ws1 == Parser("complete::multispace1", "", <<>>)

number ==
    map(tuple(<<opt(char("-")), map_res(digit1, "i64::from_str")>>), "sign")

\* var_width in vcd.rs (the name is taken by the simulation's map)
vcd_var_width == terminated(number, multispace0)

dual_range ==
    map(separated_pair(vcd_var_width, terminated(char(":"), multispace0),
                       vcd_var_width),
        "Range::Range")

\* a single index; a negative one fails the assertion
simple_range == map(vcd_var_width, "Range::Bit")

var_range ==
    delimited(terminated(char("["), multispace0),
              alt(<<dual_range, simple_range>>),
              terminated(char("]"), multispace0))

\* none_of("$")(input)?, then the name from the same input
var_name ==
    preceded(peek(none_of({"$"})),
             terminated(take_till1("IsWhitespaceOrBracket"), multispace0))

\* Any non whitespace stuff inside commands
vcd_word == terminated(take_till1("IsWhitespace"), multispace1)

END_TAG == <<"$", "e", "n", "d">>

\* vcd_end with a fault: the whitespace after $end is read by fill_ws1
\* alone, which fails at the end of the window
vcd_end_CompleteOnly == terminated(tag(END_TAG), fill_ws1)

\* Matches a VCD $end token
vcd_end == terminated(tag(END_TAG), alt(<<fill_ws1, multispace1>>))

vcd_cycle ==
    map_res(delimited(char("#"), digit1, fill_ws1), "u64::from_str")

vcd_varid == terminated(take_till1("IsWhitespace"), fill_ws1)

vcd_bit_change ==
    tuple(<<one_of(BitChars), preceded(multispace0, vcd_varid)>>)

vcd_bits == terminated(take_till1("NotVcdBit"), multispace0)

vcd_vec_change ==
    preceded(char("b"), preceded(multispace0, tuple(<<vcd_bits, vcd_varid>>)))

vcd_real_change ==
    preceded(char("r"),
             preceded(multispace0,
                      tuple(<<terminated(recognize_float, multispace0),
                              vcd_varid>>)))

vcd_change ==
    alt(<<map(vcd_bit_change, "VcdValue::Bit"),
          map(vcd_vec_change, "VcdValue::Vector"),
          map(vcd_real_change, "VcdValue::Real")>>)

\* Parse the next VCD Command (i.e., stuff not in the VCD header)
vcd_command ==
    alt(<<map(vcd_change, "VcdCommand::ValueChange"),
          map(vcd_cycle, "VcdCommand::SetCycle"),
          fn("vcd_directive")>>)

\* skip_until_vcd_end with a fault: a dollar that does not start $end is an
\* error
RECURSIVE skip_until_vcd_end_StopsAtDollar(_)
skip_until_vcd_end_StopsAtDollar(w) ==
    LET t == Parse(take_till("IsDollar"), w)
    IN  IF t.k # "ok" THEN t
        ELSE LET e == Parse(opt(vcd_end), t.rest)
             IN  IF e.k # "ok" THEN e
                 ELSE IF e.v # <<>> THEN Ok(e.rest, <<>>)
                 ELSE Error

\* Ignores anything until a $end token is found
RECURSIVE skip_until_vcd_end(_)
skip_until_vcd_end(w) ==
    LET t == Parse(take_till("IsDollar"), w)
    IN  IF t.k # "ok" THEN t
        ELSE LET e == Parse(opt(vcd_end), t.rest)
             IN  IF e.k # "ok" THEN e
                 ELSE IF e.v # <<>> THEN Ok(e.rest, <<>>)
                 ELSE LET s == Parse(take(1), e.rest)
                      IN  IF s.k # "ok" THEN s ELSE skip_until_vcd_end(s.rest)

W_end == <<"e", "n", "d">>
W_comment == <<"c", "o", "m", "m", "e", "n", "t">>

W_dumpvars == <<"d", "u", "m", "p", "v", "a", "r", "s">>

\* vcd_directive with a fault: the body of a comment is left in place
vcd_directive_CommentLeft(w) ==
    LET d == Parse(terminated(preceded(char("$"), alphanumeric1), fill_ws1), w)
    IN  IF d.k # "ok" THEN d
        ELSE IF d.v = W_end THEN Ok(d.rest, VcdEnd)
        ELSE Ok(d.rest, Directive(d.v))

vcd_directive(w) ==
    LET d == Parse(terminated(preceded(char("$"), alphanumeric1), fill_ws1), w)
    IN  IF d.k # "ok" THEN d
        ELSE IF d.v = W_end THEN Ok(d.rest, VcdEnd)
        ELSE IF d.v = W_comment
        THEN LET s == skip_until_vcd_end(d.rest)
             IN  IF s.k # "ok" THEN s ELSE Ok(s.rest, Directive(d.v))
        ELSE Ok(d.rest, Directive(d.v))

\* the functions of vcd.rs written as statements
CallFn(name, w) ==
    CASE name = "skip_until_vcd_end" -> skip_until_vcd_end(w)
      [] name = "vcd_directive" -> vcd_directive(w)

\* ------------------------------------------------------------------------
\* Header parser (types.rs, vcd.rs)
\* ------------------------------------------------------------------------

VariableKindFrom(name) ==
    CASE name = <<"e", "v", "e", "n", "t">> -> "VcdEvent"
      [] name = <<"i", "n", "t", "e", "g", "e", "r">> -> "VcdInteger"
      [] name = <<"p", "a", "r", "a", "m", "e", "t", "e", "r">> -> "VcdParameter"
      [] name = <<"r", "e", "a", "l">> -> "VcdReal"
      [] name = <<"r", "e", "g">> -> "VcdReg"
      [] name = <<"s", "u", "p", "p", "l", "y", "0">> -> "VcdSupply0"
      [] name = <<"s", "u", "p", "p", "l", "y", "1">> -> "VcdSupply1"
      [] name = <<"t", "i", "m", "e">> -> "VcdTime"
      [] name = <<"t", "r", "i">> -> "VcdTri"
      [] name = <<"t", "r", "i", "a", "n", "d">> -> "VcdTriand"
      [] name = <<"t", "r", "i", "o", "r">> -> "VcdTrior"
      [] name = <<"t", "r", "i", "r", "e", "g">> -> "VcdTrireg"
      [] name = <<"t", "r", "i", "0">> -> "VcdTri0"
      [] name = <<"t", "r", "i", "1">> -> "VcdTri1"
      [] name = <<"w", "a", "n", "d">> -> "VcdTriand"
      [] name = <<"w", "i", "r", "e">> -> "VcdWire"
      [] name = <<"w", "o", "r">> -> "VcdWor"
      [] OTHER -> "End"

ScopeFromStr(kind_str, name) ==
    [kind |-> CASE kind_str = <<"m", "o", "d", "u", "l", "e">> -> "VcdModule"
                   [] kind_str = <<"b", "e", "g", "i", "n">> -> "VcdBegin"
                   [] kind_str = <<"f", "o", "r", "k">> -> "VcdFork"
                   [] kind_str = <<"f", "u", "n", "c", "t", "i", "o", "n">> -> "VcdFunction"
                   [] kind_str = <<"t", "a", "s", "k">> -> "VcdTask"
                   [] OTHER -> "Other",
     name |-> name]

W_enddefinitions == <<"e", "n", "d", "d", "e", "f", "i", "n", "i", "t", "i", "o", "n", "s">>
W_scope == <<"s", "c", "o", "p", "e">>
W_upscope == <<"u", "p", "s", "c", "o", "p", "e">>
W_var == <<"v", "a", "r">>

\* `width as u32` keeps the low 32 bits of the i64.  The model's integers
\* are narrower than 2^32, so a wrapped negative width w, which is 2^32 + w
\* in the program, is held as WrapBase + w: a large positive width that
\* differs from w
WrapBase == 1073741824
AsU32(w) == IF w >= 0 THEN w ELSE WrapBase + w

\* VcdHeaderParser::new
NewHeaderParser == [variables |-> <<>>, header_valid |-> FALSE, scope |-> <<>>]

\* the fields (var_type, width, var_id, var_name, range) of a $var
VariableInfo(f, scope) ==
    [id |-> f[3], kind |-> VariableKindFrom(f[1]),
     width |-> AsU32(f[2]), name |-> f[4], range |-> f[5],
     handle |-> 0, scope |-> scope, direction |-> "Implicit"]

\* the arms with a fault: $upscope leaves every scope
HeaderUpdate_UpscopeClears(hp, cmd, v) ==
    CASE cmd = W_enddefinitions -> [hp EXCEPT !.header_valid = TRUE]
      [] cmd = W_scope ->
           [hp EXCEPT !.scope = Append(@, ScopeFromStr(v[1], v[2]))]
      [] cmd = W_upscope -> [hp EXCEPT !.scope = <<>>]
      [] cmd = W_var ->
           [hp EXCEPT !.variables = Append(@, VariableInfo(v, hp.scope))]
      [] OTHER -> hp

\* what the arm of directive cmd does to the parser once its parser has
\* returned Ok(v)
HeaderUpdate(hp, cmd, v) ==
    CASE cmd = W_enddefinitions -> [hp EXCEPT !.header_valid = TRUE]
      [] cmd = W_scope ->
           [hp EXCEPT !.scope = Append(@, ScopeFromStr(v[1], v[2]))]
      [] cmd = W_upscope ->
           [hp EXCEPT !.scope = IF @ = <<>> THEN @ ELSE Take(@, Len(@) - 1)]
      [] cmd = W_var ->
           [hp EXCEPT !.variables = Append(@, VariableInfo(v, hp.scope))]
      [] OTHER -> hp

\* the parser of the arm of directive cmd
HeaderArm(cmd) ==
    CASE cmd = W_enddefinitions -> vcd_end
      [] cmd = W_scope -> terminated(tuple(<<vcd_word, vcd_word>>), vcd_end)
      [] cmd = W_upscope -> vcd_end
      [] cmd = W_var ->
           terminated(tuple(<<vcd_word, vcd_var_width, vcd_word, var_name,
                              opt(var_range)>>),
                      vcd_end)
      [] OTHER -> fn("skip_until_vcd_end")

\* next_header_command once `$word` and the whitespace after it are read
\* (c) and the arm's parser has run (r); the parser's state changes only
\* when both have returned Ok
HeaderCommand(hp, c, r) ==
    IF c.k # "ok" THEN [k |-> c.k, rest |-> c.rest, v |-> FALSE, hp |-> hp]
    ELSE [k |-> r.k, rest |-> r.rest,
          v |-> r.k = "ok" /\ c.v = W_enddefinitions,
          hp |-> IF r.k = "ok" THEN HeaderUpdate(hp, c.v, r.v) ELSE hp]

\* [k, rest, v, hp]: v is the bool returned, hp the parser afterwards
next_header_command(hp, w) ==
    LET c == Parse(terminated(preceded(char("$"), alphanumeric1), multispace0),
                   w)
    IN  HeaderCommand(hp, c, Parse(HeaderArm(c.v), c.rest))

\* VcdHeaderParser::header: None (the empty sequence) until sealed
header(hp) == IF hp.header_valid THEN <<hp.variables>> ELSE <<>>

\* ------------------------------------------------------------------------
\* Refill buffer (utils.rs)
\* ------------------------------------------------------------------------

\* the byte Vec::resize fills with
ZeroByte == "<00>"

\* The Vec<u8> of the buffer is held as data, the bytes up to the last one
\* ever written, and cap, the length of the Vec: the Vec is data followed
\* by cap - Len(data) zero bytes.  inner counts the bytes already read from
\* the source.  Buffer::with_capacity: the Vec is empty (capacity is not
\* length)
NewBuffer == [data |-> <<>>, cap |-> 0, offset |-> 0, size |-> 0, inner |-> 0]

\* the Vec itself
BufferVec(b) ==
    [i \in 1..b.cap |-> IF i <= Len(b.data) THEN b.data[i] ELSE ZeroByte]

capacity(b) == b.cap

available(b) == capacity(b) - (b.size + b.offset)

\* the byte at 0-based index i of the Vec
VecAt(b, i) == IF i < Len(b.data) THEN b.data[i + 1] ELSE ZeroByte

\* the Vec with the bytes ws written from 0-based index at on, which is
\* never beyond the bytes written so far
WriteAt(data, at, ws) ==
    [i \in 1..(IF at + Len(ws) > Len(data) THEN at + Len(ws) ELSE Len(data)) |->
        IF i > at /\ i <= at + Len(ws) THEN ws[i - at] ELSE data[i]]

BufferData(b) == [i \in 1..b.size |-> VecAt(b, b.offset + i - 1)]

BufferLen(b) == b.size

push(b, elt) ==
    IF available(b) = 0
    THEN [b EXCEPT !.data = WriteAt(BufferVec(b), b.cap, <<elt>>),
                   !.cap = @ + 1]
    ELSE [b EXCEPT !.data = WriteAt(@, b.offset + b.size, <<elt>>),
                   !.size = @ + 1]

consume(b, size) ==
    IF size >= b.size
    THEN [b EXCEPT !.offset = 0, !.size = 0]
    ELSE [b EXCEPT !.offset = @ + size, !.size = @ - size]

\* how many bytes of w come before its first byte that is not whitespace
LeadingWhitespace(w) ==
    LET i == FindFirst("NotAsciiWhitespace", w)
    IN  IF i = 0 THEN Len(w) ELSE i - 1

\* returns the buffer and the count trimmed
trim(b) ==
    LET n == LeadingWhitespace(BufferData(b))
    IN  [b |-> consume(b, n), n |-> n]

\* data.drain(0..offset)
shift(b) ==
    [b EXCEPT !.data = Drop(@, b.offset), !.cap = @ - b.offset, !.offset = 0]

\* File::read: as many bytes as are left, up to the length of the slice
Read(input, inner, size) ==
    IF size < Len(input) - inner THEN size ELSE Len(input) - inner

\* Buffer::refill with a fault: the bytes read are written from the start of
\* the window on
BufferRefill_FromOffset(b, size, input) ==
    LET end == b.offset + b.size
        n == Read(input, b.inner, size)
    IN  [b |-> [b EXCEPT !.cap = IF available(b) < size THEN end + size ELSE @,
                         !.data = WriteAt(@, b.offset,
                                          SubSeq(input, b.inner + 1, b.inner + n)),
                         !.size = @ + n,
                         !.inner = @ + n],
         n |-> n]

\* Buffer::refill: returns the buffer and the count read
BufferRefill(b, size, input) ==
    LET end == b.offset + b.size
        n == Read(input, b.inner, size)
    IN  [b |-> [b EXCEPT !.cap = IF available(b) < size THEN end + size ELSE @,
                         !.data = WriteAt(@, end,
                                          SubSeq(input, b.inner + 1, b.inner + n)),
                         !.size = @ + n,
                         !.inner = @ + n],
         n |-> n]

\* ------------------------------------------------------------------------
\* Stream parser (vcd.rs)
\* ------------------------------------------------------------------------

\* the window length below which run_parser refills after a command
ShortWindow == 256

\* VcdStreamParser::with_chunk_size
NewStreamParser(chunk_size) ==
    [buff |-> NewBuffer, chunk_size |-> chunk_size, end_of_input |-> FALSE]

\* done with a fault: the window is not looked at
done_WindowIgnored(sp) == sp.end_of_input

done(sp) == sp.end_of_input /\ BufferLen(sp.buff) = 0

RECURSIVE trim_refill(_, _, _)
\* one turn of trim_refill's loop, r being what the buffer's refill returned
TrimRefillTurn(r, chunk_size, input) ==
    LET t == trim(r.b)
    IN  IF t.n = 0 \/ t.n < r.n
        THEN [b |-> t.b, n |-> r.n - t.n]
        ELSE trim_refill(t.b, chunk_size, input)

\* returns the buffer and the net count of bytes read
trim_refill(b, chunk_size, input) ==
    TrimRefillTurn(BufferRefill(b, chunk_size, input), chunk_size, input)

\* whether one of the last n bytes of the window d is >= 128
AnyNonAscii(d, n) == \E i \in 1..Len(d) : i > Len(d) - n /\ d[i] = HighByte

\* refill with a fault: the bytes read by a trimming refill are not looked
\* at
AfterRefill_TrimUnchecked(sp, do_trim, r) ==
    IF ~do_trim /\ AnyNonAscii(BufferData(r.b), r.n)
    THEN [sp |-> [sp EXCEPT !.buff = r.b], res |-> "Utf8Error", n |-> r.n]
    ELSE IF r.n = 0
    THEN [sp |-> [sp EXCEPT !.end_of_input = TRUE,
                            !.buff = IF do_trim THEN r.b ELSE push(r.b, "\n")],
          res |-> "ok", n |-> 0]
    ELSE [sp |-> [sp EXCEPT !.buff = r.b], res |-> "ok", n |-> r.n]

\* refill once the buffer is refilled, r being the buffer and the count
AfterRefill(sp, do_trim, r) ==
    IF AnyNonAscii(BufferData(r.b), r.n)
    THEN [sp |-> [sp EXCEPT !.buff = r.b], res |-> "Utf8Error", n |-> r.n]
    ELSE IF r.n = 0
    THEN [sp |-> [sp EXCEPT !.end_of_input = TRUE,
                            !.buff = IF do_trim THEN r.b ELSE push(r.b, "\n")],
          res |-> "ok", n |-> 0]
    ELSE [sp |-> [sp EXCEPT !.buff = r.b], res |-> "ok", n |-> r.n]

\* Refills a chunk of data: [sp, res, n], res "ok" or "Utf8Error"
refill(sp, do_trim, input) ==
    AfterRefill(sp, do_trim,
                IF do_trim
                THEN trim_refill(sp.buff, sp.chunk_size, input)
                ELSE BufferRefill(sp.buff, sp.chunk_size, input))

\* ------------------------------------------------------------------------
\* Callbacks (simulation.rs, tests/vcd_parser.rs)
\* ------------------------------------------------------------------------

\* logic_level with a fault: an unknown level is stored as 2
logic_level_UnknownIsTwo(c) ==
    IF c \in {"x", "X"} THEN 2 ELSE 0

\* logic_level with a fault: Z and X are taken for each other
logic_level_ZForX(c) ==
    CASE c = "0" -> 0
      [] c = "1" -> 1
      [] c \in {"U", "u"} -> -1
      [] c \in {"W", "w"} -> -2
      [] c \in {"Z", "z"} -> -4
      [] c \in {"X", "x"} -> -3
      [] OTHER -> -5

logic_level(c) ==
    CASE c = "0" -> 0
      [] c = "1" -> 1
      [] c \in {"U", "u"} -> -1
      [] c \in {"W", "w"} -> -2
      [] c \in {"Z", "z"} -> -3
      [] c \in {"X", "x"} -> -4
      [] OTHER -> -5

\* What the closures given to run_parser capture: the header parser, the
\* simulation's state vector, maps and tracking set, the cycle of the call,
\* the commands handed to the callback so far and should_stop.  cb names
\* the callback: "sim" (next_cycle's), "count" (the one that never stops)
\* or "stop" (one that stops at every timestamp)
NewEnv(cb, hp, state, offsets, widths, tracked, cmds) ==
    [cb |-> cb, hp |-> hp, state |-> state, var_offset |-> offsets,
     var_width |-> widths, tracked_var |-> tracked, cycle |-> 0,
     cmds |-> cmds, should_stop |-> FALSE]

CbResult(env, stop, panic) == [env |-> env, stop |-> stop, panic |-> panic]

\* the write of a vector with a fault: the literal is written last
\* character first
WriteVector_LsbFirst(state, base, x) ==
    [i \in 1..Len(state) |->
        IF i > base /\ i <= base + Len(x)
        THEN logic_level(x[Len(x) + 1 - (i - base)]) ELSE state[i]]

\* the write of a vector with a fault: the levels are appended to the state
\* vector
WriteVector_Appends(state, base, x) ==
    state \o [i \in 1..Len(x) |-> logic_level(x[i])]

\* the zip of state[base..base + w] with the literal's characters
WriteVector(state, base, x) ==
    [i \in 1..Len(state) |->
        IF i > base /\ i <= base + Len(x)
        THEN logic_level(x[i - base]) ELSE state[i]]

\* next_cycle's callback with a fault: the tracking set is not applied to
\* the value changes
SimValueChange_NoFilter(env, v) ==
    IF v.var_id \notin DOMAIN env.var_offset
    THEN CbResult(env, FALSE, TRUE)
    ELSE LET base == env.var_offset[v.var_id]
         IN  CASE v.vt = "Bit" ->
                    IF base >= Len(env.state) THEN CbResult(env, FALSE, TRUE)
                    ELSE CbResult([env EXCEPT !.state[base + 1] =
                                                  logic_level(v.val[1])],
                                  FALSE, FALSE)
               [] v.vt = "Vector" ->
                    LET w == env.var_width[v.var_id]
                    IN  IF w # Len(v.val) \/ base + w > Len(env.state)
                        THEN CbResult(env, FALSE, TRUE)
                        ELSE CbResult([env EXCEPT !.state =
                                          WriteVector(@, base, v.val)],
                                      FALSE, FALSE)
               [] OTHER -> CbResult(env, FALSE, FALSE)

\* next_cycle's callback; offsets are 0-based as in the program
SimValueChange(env, v) ==
    IF env.tracked_var # {} /\ v.var_id \notin env.tracked_var
    THEN CbResult(env, FALSE, FALSE)
    ELSE IF v.var_id \notin DOMAIN env.var_offset
    THEN CbResult(env, FALSE, TRUE)
    ELSE LET base == env.var_offset[v.var_id]
         IN  CASE v.vt = "Bit" ->
                    IF base >= Len(env.state) THEN CbResult(env, FALSE, TRUE)
                    ELSE CbResult([env EXCEPT !.state[base + 1] =
                                                  logic_level(v.val[1])],
                                  FALSE, FALSE)
               [] v.vt = "Vector" ->
                    LET w == env.var_width[v.var_id]
                    IN  IF w # Len(v.val) \/ base + w > Len(env.state)
                        THEN CbResult(env, FALSE, TRUE)
                        ELSE CbResult([env EXCEPT !.state =
                                          WriteVector(@, base, v.val)],
                                      FALSE, FALSE)
               [] OTHER -> CbResult(env, FALSE, FALSE)

\* next_cycle's callback with a fault: a timestamp does not stop the run
SimCallback_NoStop(env, cmd) ==
    IF cmd.t = "SetCycle" THEN CbResult([env EXCEPT !.cycle = cmd.c], FALSE, FALSE)
    ELSE IF cmd.t = "ValueChange" THEN SimValueChange(env, cmd)
    ELSE CbResult(env, FALSE, FALSE)

SimCallback(env, cmd) ==
    IF cmd.t = "SetCycle" THEN CbResult([env EXCEPT !.cycle = cmd.c], TRUE, FALSE)
    ELSE IF cmd.t = "ValueChange" THEN SimValueChange(env, cmd)
    ELSE CbResult(env, FALSE, FALSE)

\* parse_file's callback
CountCallback(env, cmd) == CbResult(env, FALSE, FALSE)

\* a callback of a caller that stops at every timestamp
StopCallback(env, cmd) == CbResult(env, cmd.t = "SetCycle", FALSE)

\* the callback's return, with the command added to those handed over
Callback(env, cmd) ==
    LET r == IF env.cb = "sim" THEN SimCallback(env, cmd)
             ELSE IF env.cb = "stop" THEN StopCallback(env, cmd)
             ELSE CountCallback(env, cmd)
    IN  [r EXCEPT !.env.cmds = Append(@, cmd)]

\* ------------------------------------------------------------------------
\* run_parser, load_header, process_vcd_commands (vcd.rs)
\* ------------------------------------------------------------------------

\* the closure load_header gives to run_parser, r being what
\* next_header_command returned
HeaderStep(env, r) ==
    [k |-> r.k, rest |-> r.rest, v |-> r.v, env |-> [env EXCEPT !.hp = r.hp]]

\* the closure process_vcd_commands gives to run_parser, r being what
\* vcd_command returned
CommandStep(env, r) ==
    IF r.k # "ok" THEN [k |-> r.k, rest |-> r.rest, v |-> FALSE, env |-> env]
    ELSE LET c == Callback(env, r.v)
         IN  IF c.panic
             THEN [k |-> "panic", rest |-> r.rest, v |-> FALSE, env |-> c.env]
             ELSE [k |-> "ok", rest |-> r.rest, v |-> FALSE,
                   env |-> [c.env EXCEPT !.should_stop = @ \/ c.stop]]

ParserStep(mode, env, w) ==
    IF mode = "header"
    THEN HeaderStep(env, next_header_command(env.hp, w))
    ELSE CommandStep(env, Parse(vcd_command, w))

RunResult(sp, env, res, v) == [sp |-> sp, env |-> env, res |-> res, v |-> v]

\* what run_parser does once f has returned Ok
AfterOk(sp, input) ==
    IF BufferLen(sp.buff) = 0 THEN refill(sp, TRUE, input)
    ELSE IF ~sp.end_of_input /\ BufferLen(sp.buff) <= ShortWindow
    THEN refill([sp EXCEPT !.buff = shift(@)], FALSE, input)
    ELSE [sp |-> sp, res |-> "ok", n |-> 0]

RECURSIVE run_parser(_, _, _, _)
\* one turn of the loop with a fault: the end of the input inside a record
\* is reported as a parse error
RunTurn_EndIsParseError(sp, env, mode, input, r) ==
    CASE r.k = "ok" ->
           LET consumed == BufferLen(sp.buff) - Len(r.rest)
               a == AfterOk([sp EXCEPT !.buff = consume(@, consumed)], input)
           IN  RunResult(a.sp, r.env, a.res, r.v)
      [] r.k = "inc" ->
           LET f == refill(sp, FALSE, input)
           IN  IF f.res # "ok" THEN RunResult(f.sp, env, f.res, FALSE)
               ELSE IF f.n = 0 /\ f.sp.end_of_input
               THEN RunResult(f.sp, env, "ParseError", FALSE)
               ELSE run_parser(f.sp, env, mode, input)
      [] r.k = "panic" -> RunResult(sp, r.env, "panic", FALSE)
      [] OTHER -> RunResult(sp, env, "ParseError", FALSE)

\* one turn of run_parser's loop, r being what f returned
RunTurn(sp, env, mode, input, r) ==
    CASE r.k = "ok" ->
           LET consumed == BufferLen(sp.buff) - Len(r.rest)
               a == AfterOk([sp EXCEPT !.buff = consume(@, consumed)], input)
           IN  RunResult(a.sp, r.env, a.res, r.v)
      [] r.k = "inc" ->
           LET f == refill(sp, FALSE, input)
           IN  IF f.res # "ok" THEN RunResult(f.sp, env, f.res, FALSE)
               ELSE IF f.n = 0 /\ f.sp.end_of_input
               THEN RunResult(f.sp, env, "MissingData", FALSE)
               ELSE run_parser(f.sp, env, mode, input)
      [] r.k = "panic" -> RunResult(sp, r.env, "panic", FALSE)
      [] OTHER -> RunResult(sp, env, "ParseError", FALSE)

run_parser(sp, env, mode, input) ==
    RunTurn(sp, env, mode, input, ParserStep(mode, env, BufferData(sp.buff)))

RECURSIVE HeaderLoop(_, _, _)
\* the loop with a fault: load_header returns after its first directive
HeaderTurn_ReturnsEarly(r, input) == r

HeaderTurn(r, input) ==
    IF r.res # "ok" \/ r.v THEN r ELSE HeaderLoop(r.sp, r.env, input)

HeaderLoop(sp, env, input) ==
    HeaderTurn(run_parser(sp, env, "header", input), input)

\* VcdParser::load_header: [sp, env, res, v]
load_header(sp, env, input) == HeaderLoop(sp, env, input)

RECURSIVE CommandLoop(_, _, _)
CommandTurn(r, input) ==
    IF r.res # "ok" THEN r ELSE CommandLoop(r.sp, r.env, input)

\* the loop with a fault: the callback's return is not looked at
CommandLoop_NeverStops(sp, env, input) ==
    IF done(sp) THEN RunResult(sp, env, "ok", FALSE)
    ELSE CommandTurn(run_parser(sp, env, "command", input), input)

CommandLoop(sp, env, input) ==
    IF env.should_stop \/ done(sp) THEN RunResult(sp, env, "ok", FALSE)
    ELSE CommandTurn(run_parser(sp, env, "command", input), input)

\* VcdParser::process_vcd_commands: [sp, env, res, v]
process_vcd_commands(sp, env, input) ==
    IF BufferLen(sp.buff) = 0
    THEN LET f == refill(sp, TRUE, input)
         IN  IF f.res # "ok" THEN RunResult(f.sp, env, f.res, FALSE)
             ELSE IF f.n = 0 THEN RunResult(f.sp, env, "ok", FALSE)
             ELSE CommandLoop(f.sp, env, input)
    ELSE CommandLoop(sp, env, input)

\* ------------------------------------------------------------------------
\* State simulation (simulation.rs) and its FFI entry (wavetk-bindings)
\* ------------------------------------------------------------------------

\* the chunk size StateSimulation::new gives its parser
SimChunk == 4096

EmptyMap == <<>>

MapPut(m, key, val) ==
    [x \in DOMAIN m \cup {key} |-> IF x = key THEN val ELSE m[x]]

\* Vec::resize(n, 0): the bytes kept are unchanged, the new ones are 0
Resize(state, n) ==
    [i \in 1..n |-> IF i <= Len(state) THEN state[i] ELSE 0]

\* allocate_state's loop with a fault: a second declaration of an id takes
\* room in the state vector again
RECURSIVE AllocLoop_DuplicateTakesRoom(_, _, _, _, _, _)
AllocLoop_DuplicateTakesRoom(variables, i, offset, offsets, widths, tracked) ==
    IF i > Len(variables)
    THEN [ok |-> TRUE, offset |-> offset, var_offset |-> offsets,
          var_width |-> widths]
    ELSE LET v == variables[i]
         IN  IF v.id \in DOMAIN offsets
             THEN IF widths[v.id] # v.width
                  THEN [ok |-> FALSE, offset |-> offset,
                        var_offset |-> offsets, var_width |-> widths]
                  ELSE AllocLoop_DuplicateTakesRoom(
                           variables, i + 1, offset + v.width, offsets,
                           widths, tracked)
             ELSE IF v.kind = "VcdReal"
             THEN AllocLoop_DuplicateTakesRoom(variables, i + 1, offset,
                                               offsets, widths, tracked)
             ELSE IF tracked # {} /\ v.id \notin tracked
             THEN AllocLoop_DuplicateTakesRoom(variables, i + 1, offset,
                                               offsets, widths, tracked)
             ELSE AllocLoop_DuplicateTakesRoom(
                      variables, i + 1, offset + v.width,
                      MapPut(offsets, v.id, offset),
                      MapPut(widths, v.id, v.width), tracked)

\* allocate_state's loop with a fault: the offset is not advanced past the
\* variable just placed
RECURSIVE AllocLoop_OffsetNotAdvanced(_, _, _, _, _, _)
AllocLoop_OffsetNotAdvanced(variables, i, offset, offsets, widths, tracked) ==
    IF i > Len(variables)
    THEN [ok |-> TRUE, offset |-> offset, var_offset |-> offsets,
          var_width |-> widths]
    ELSE LET v == variables[i]
         IN  IF v.id \in DOMAIN offsets
             THEN IF widths[v.id] # v.width
                  THEN [ok |-> FALSE, offset |-> offset,
                        var_offset |-> offsets, var_width |-> widths]
                  ELSE AllocLoop_OffsetNotAdvanced(variables, i + 1, offset,
                                                   offsets, widths, tracked)
             ELSE IF v.kind = "VcdReal"
             THEN AllocLoop_OffsetNotAdvanced(variables, i + 1, offset,
                                              offsets, widths, tracked)
             ELSE IF tracked # {} /\ v.id \notin tracked
             THEN AllocLoop_OffsetNotAdvanced(variables, i + 1, offset,
                                              offsets, widths, tracked)
             ELSE AllocLoop_OffsetNotAdvanced(
                      variables, i + 1, offset,
                      MapPut(offsets, v.id, offset),
                      MapPut(widths, v.id, v.width), tracked)

\* the loop with a fault: a declaration of an id already allocated is
\* accepted whatever its width
RECURSIVE AllocLoop_WidthNotCompared(_, _, _, _, _, _)
AllocLoop_WidthNotCompared(variables, i, offset, offsets, widths, tracked) ==
    IF i > Len(variables)
    THEN [ok |-> TRUE, offset |-> offset, var_offset |-> offsets,
          var_width |-> widths]
    ELSE LET v == variables[i]
         IN  IF v.id \in DOMAIN offsets \/ v.kind = "VcdReal"
                \/ (tracked # {} /\ v.id \notin tracked)
             THEN AllocLoop_WidthNotCompared(variables, i + 1, offset, offsets,
                                             widths, tracked)
             ELSE AllocLoop_WidthNotCompared(variables, i + 1,
                                             offset + v.width,
                                             MapPut(offsets, v.id, offset),
                                             MapPut(widths, v.id, v.width),
                                             tracked)

\* the loop of allocate_state from variable i on: [ok, offset, var_offset,
\* var_width]; ok is FALSE when the width assertion fails
RECURSIVE AllocLoop(_, _, _, _, _, _)
AllocLoop(variables, i, offset, offsets, widths, tracked) ==
    IF i > Len(variables)
    THEN [ok |-> TRUE, offset |-> offset, var_offset |-> offsets,
          var_width |-> widths]
    ELSE LET v == variables[i]
         IN  IF v.id \in DOMAIN offsets
             THEN IF widths[v.id] # v.width
                  THEN [ok |-> FALSE, offset |-> offset,
                        var_offset |-> offsets, var_width |-> widths]
                  ELSE AllocLoop(variables, i + 1, offset, offsets, widths,
                                 tracked)
             ELSE IF v.kind = "VcdReal"
             THEN AllocLoop(variables, i + 1, offset, offsets, widths, tracked)
             ELSE IF tracked # {} /\ v.id \notin tracked
             THEN AllocLoop(variables, i + 1, offset, offsets, widths, tracked)
             ELSE AllocLoop(variables, i + 1, offset + v.width,
                            MapPut(offsets, v.id, offset),
                            MapPut(widths, v.id, v.width), tracked)

\* allocate_state with a fault: the offsets go on from the length the
\* state vector already has
allocate_state_Appends(hp, state, offsets, widths, tracked) ==
    IF header(hp) = <<>>
    THEN [res |-> "PartialHeader", state |-> state, var_offset |-> offsets,
          var_width |-> widths]
    ELSE LET a == AllocLoop(header(hp)[1], 1, Len(state), EmptyMap, EmptyMap,
                            tracked)
         IN  [res |-> IF a.ok THEN "ok" ELSE "panic",
              state |-> Resize(state, a.offset),
              var_offset |-> a.var_offset, var_width |-> a.var_width]

\* allocate_state with a fault: the declarations read so far are laid out
\* although the header is not sealed
allocate_state_Unsealed(hp, state, offsets, widths, tracked) ==
    LET a == AllocLoop(hp.variables, 1, 0, EmptyMap, EmptyMap, tracked)
    IN  [res |-> IF a.ok THEN "ok" ELSE "panic",
         state |-> IF a.ok THEN Resize(state, a.offset) ELSE state,
         var_offset |-> a.var_offset, var_width |-> a.var_width]

\* allocate_state with a fault: the state vector is not resized
allocate_state_NoResize(hp, state, offsets, widths, tracked) ==
    IF header(hp) = <<>>
    THEN [res |-> "PartialHeader", state |-> state, var_offset |-> offsets,
          var_width |-> widths]
    ELSE LET a == AllocLoop(header(hp)[1], 1, 0, EmptyMap, EmptyMap, tracked)
         IN  [res |-> IF a.ok THEN "ok" ELSE "panic",
              state |-> state,
              var_offset |-> a.var_offset, var_width |-> a.var_width]

\* StateSimulation::allocate_state: [res, state, var_offset, var_width]
allocate_state(hp, state, offsets, widths, tracked) ==
    IF header(hp) = <<>>
    THEN [res |-> "PartialHeader", state |-> state, var_offset |-> offsets,
          var_width |-> widths]
    ELSE LET a == AllocLoop(header(hp)[1], 1, 0, EmptyMap, EmptyMap, tracked)
         IN  [res |-> IF a.ok THEN "ok" ELSE "panic",
              state |-> IF a.ok THEN Resize(state, a.offset) ELSE state,
              var_offset |-> a.var_offset, var_width |-> a.var_width]

\* the loop of header_info from variable i on: the later declaration of an
\* id replaces the entry of the earlier one
RECURSIVE InfoLoop(_, _, _, _)
InfoLoop(variables, i, offsets, w) ==
    IF i > Len(variables) THEN w
    ELSE InfoLoop(variables, i + 1, offsets,
                  MapPut(w, variables[i].id,
                         [offset |-> IF variables[i].id \in DOMAIN offsets
                                     THEN <<offsets[variables[i].id]>>
                                     ELSE <<>>,
                          info |-> variables[i]]))

\* StateSimulation::header_info: [res, info], info mapping an id to its
\* optional offset (a sequence of at most one element) and its VariableInfo
header_info(hp, offsets) ==
    IF header(hp) = <<>>
    THEN [res |-> "PartialHeader", info |-> EmptyMap]
    ELSE [res |-> "ok", info |-> InfoLoop(header(hp)[1], 1, offsets, EmptyMap)]

\* StateSimulation::next_cycle: the run of process_vcd_commands with the
\* simulation's callback; [sp, env, res, v]
next_cycle(sp, hp, state, offsets, widths, tracked, cmds, input) ==
    process_vcd_commands(
        sp, NewEnv("sim", hp, state, offsets, widths, tracked, cmds), input)

\* ------------------------------------------------------------------------
\* Input files: a header (a list of items) and a body (a list of records),
\* written out as the bytes of a VCD file
\* ------------------------------------------------------------------------

W_wire == <<"w", "i", "r", "e">>
W_real == <<"r", "e", "a", "l">>

RECURSIVE DigitsOf(_)
DigitsOf(n) ==
    IF n < 10 THEN <<ToString(n)>>
    ELSE DigitsOf(n \div 10) \o <<ToString(n % 10)>>

VarItem(kind, width, id) == [t |-> "var", kind |-> kind, width |-> width, id |-> id]
ScopeItem == [t |-> "scope", kind |-> <<>>, width |-> 0, id |-> <<>>]
UpscopeItem == [t |-> "upscope", kind |-> <<>>, width |-> 0, id |-> <<>>]

\* a $scope of the given kind and name
NamedScope(kind, name) == [t |-> "scope", kind |-> kind, width |-> 0, id |-> name]
\* a $var with a range after its name
RangedVar(width, id) == [t |-> "ranged", kind |-> W_wire, width |-> width, id |-> id]
\* the directives of a body: a comment over a bit change, $dumpvars and $end
CommentItem == [t |-> "comment", kind |-> <<>>, width |-> 0, id |-> <<>>]
DumpvarsItem == [t |-> "dumpvars", kind |-> <<>>, width |-> 0, id |-> <<>>]
EndItem == [t |-> "end", kind |-> <<>>, width |-> 0, id |-> <<>>]

\* a width as it is written: a minus sign before the digits of a negative one
WidthText(w) == IF w < 0 THEN <<"-">> \o DigitsOf(0 - w) ELSE DigitsOf(w)

RenderItem(it) ==
    CASE it.t = "var" ->
           <<"$", "v", "a", "r", " ">> \o it.kind \o <<" ">> \o WidthText(it.width)
           \o <<" ">> \o it.id \o <<" ", "n", " ", "$", "e", "n", "d", "\n">>
      [] it.t = "ranged" ->
           <<"$", "v", "a", "r", " ">> \o it.kind \o <<" ">> \o WidthText(it.width)
           \o <<" ">> \o it.id
           \o <<" ", "n", " ", "[", "3", ":", "0", "]", " ", "$", "e", "n", "d", "\n">>
      [] it.t = "scope" ->
           <<"$", "s", "c", "o", "p", "e", " ">>
           \o (IF it.kind = <<>> THEN <<"m", "o", "d", "u", "l", "e">> ELSE it.kind)
           \o <<" ">> \o (IF it.id = <<>> THEN <<"m">> ELSE it.id)
           \o <<" ", "$", "e", "n", "d", "\n">>
      [] it.t = "upscope" -> <<"$", "u", "p", "s", "c", "o", "p", "e", " ", "$", "e", "n", "d", "\n">>
      [] it.t = "comment" -> <<"$", "c", "o", "m", "m", "e", "n", "t", " ", "1", "!", " ", "$", "x", " ", "$", "e", "n", "d", "\n">>
      [] it.t = "dumpvars" -> <<"$", "d", "u", "m", "p", "v", "a", "r", "s", "\n">>
      [] it.t = "end" -> <<"$", "e", "n", "d", "\n">>

RECURSIVE Concat(_)
Concat(ss) == IF ss = <<>> THEN <<>> ELSE Head(ss) \o Concat(Tail(ss))

RenderHeader(items, sealed) ==
    Concat([i \in 1..Len(items) |-> RenderItem(items[i])])
    \o (IF sealed THEN <<"$", "e", "n", "d", "d", "e", "f", "i", "n", "i", "t", "i", "o", "n", "s", " ", "$", "e", "n", "d">> ELSE <<"$", "d", "a", "t", "e", " ", "x", " ", "$", "e", "n", "d">>)

CycleRec(c) == [t |-> "cycle", c |-> c, id |-> <<>>, val |-> <<>>]
BitRec(ch, id) == [t |-> "bit", c |-> 0, id |-> id, val |-> <<ch>>]
VecRec(bits, id) == [t |-> "vec", c |-> 0, id |-> id, val |-> bits]

RealRec(digits, id) == [t |-> "real", c |-> 0, id |-> id, val |-> digits]

\* a directive of the header written in the body
ItemRec(it) == [t |-> "item", c |-> 0, id |-> <<>>, val |-> it]

RenderRecord(r) ==
    CASE r.t = "cycle" -> <<"#">> \o DigitsOf(r.c)
      [] r.t = "item" -> Take(RenderItem(r.val), Len(RenderItem(r.val)) - 1)
      [] r.t = "bit" -> r.val \o r.id
      [] r.t = "vec" -> <<"b">> \o r.val \o <<" ">> \o r.id
      [] r.t = "real" -> <<"r">> \o r.val \o <<" ">> \o r.id

\* the file: every record is followed by a line feed, the last one only
\* when trail holds
RenderFile(f) ==
    RenderHeader(f.items, f.sealed)
    \o Concat([i \in 1..Len(f.recs) |-> <<"\n">> \o RenderRecord(f.recs[i])])
    \o (IF f.trail THEN <<"\n">> ELSE <<>>)

\* all sequences over S of length at most n
RECURSIVE SeqsUpTo(_, _)
SeqsUpTo(S, n) ==
    IF n = 0 THEN {<<>>}
    ELSE LET shorter == SeqsUpTo(S, n - 1)
         IN  shorter \cup {Append(q, x) : q \in shorter, x \in S}

IdClk == <<"!">>
IdVec == <<"a">>
IdReal == <<"r">>
IdNew == <<"#">>

\* ------------------------------------------------------------------------
\* Bounds and the files explored
\* ------------------------------------------------------------------------

\* the longest body, in records
MaxRecs == 2
\* the chunk sizes 1..MaxChunk put chunk boundaries inside every record
MaxChunk == 2
\* how many times each operation is called
MaxLoads == 1
MaxTracks == 1
MaxAllocs == 1
MaxNext == 3
MaxProcess == 1
\* the most bytes cut from the end of a file, and the last place of a byte
\* >= 128
MaxCut == 4
MaxHigh == 80
\* line feeds put before the byte >= 128
MaxPad == 3
\* turns of the loops counted in one call
MaxTurns == 200

\* calls of process_vcd_commands with a callback that stops
MaxResume == 4

MaxInfos == 1
\* how many times the layout is computed where it is computed again
MaxReallocs == 2
\* how many times the header is loaded where it is loaded again
MaxReloads == 2

\* SimChunk reads a whole file of the model at once, as the simulation does
\* with a file shorter than its chunk; the smaller sizes put the end of a
\* chunk inside the records
ChunkSizes == (1..MaxChunk) \cup {SimChunk}

\* a bit and a vector
MainHeader == <<VarItem(W_wire, 1, IdClk), VarItem(W_wire, 2, IdVec)>>

Headers ==
    { MainHeader,
      <<ScopeItem, VarItem(W_wire, 1, IdClk), VarItem(W_real, 1, IdReal),
        VarItem(W_wire, 1, IdClk), UpscopeItem>>,
      <<VarItem(W_wire, 2, IdVec), VarItem(W_wire, 1, IdVec)>>,
      <<>> }

Records ==
    { CycleRec(5), CycleRec(3), BitRec("1", IdClk), VecRec(<<"1", "x">>, IdVec),
      VecRec(<<"1">>, IdVec) }

\* the records of the bodies one record longer than MaxRecs
TimedRecords == { CycleRec(5), CycleRec(3), BitRec("1", IdClk) }

LongBodies == SeqsUpTo(TimedRecords, MaxRecs + 1) \ SeqsUpTo(TimedRecords, MaxRecs)

\* every header with every body of at most MaxRecs records, and the main
\* header with the bodies of MaxRecs + 1 timestamps and bit changes
Files ==
    { [items |-> h, sealed |-> TRUE, recs |-> b, trail |-> t] :
        h \in Headers, b \in SeqsUpTo(Records, MaxRecs), t \in BOOLEAN }
    \cup
    { [items |-> MainHeader, sealed |-> TRUE, recs |-> b, trail |-> t] :
        b \in LongBodies, t \in BOOLEAN }

TrackSets == { {IdClk} }

\* the bodies of the files that are cut short: the last record loses bytes
StreamBodies ==
    { <<>>,
      <<BitRec("1", IdClk)>>,
      <<CycleRec(5), VecRec(<<"1", "x">>, IdVec)>>,
      <<BitRec("1", IdClk), CycleRec(5)>> }

\* the text of $enddefinitions $end
SealText == RenderHeader(<<>>, TRUE)

\* the last record of a file: the last of its body, or the directive that
\* ends the header
LastRecord(f) ==
    IF f.recs # <<>> THEN RenderRecord(f.recs[Len(f.recs)])
    ELSE IF f.sealed THEN SealText
    ELSE RenderHeader(<<>>, FALSE)

\* the places where a byte >= 128 is put in a file of n bytes whose header
\* has h bytes: first, after the first byte, around the end of the header,
\* last, and after the last byte
HighPlaces(h, n) == {1, 2, h, h + 1, h + 2, n, n + 1}

\* The files of the stream: a file without its last cut bytes (the last
\* record is cut, never the whole of it), a whole file with a byte >= 128
\* put before position high, after pad line feeds, and a whole file
StreamFiles ==
    { f \in [items : {MainHeader}, sealed : BOOLEAN, recs : StreamBodies,
             trail : {FALSE}, cut : 1..MaxCut, high : {0}, pad : {0}] :
        /\ f.cut < Len(LastRecord(f))
        /\ ~f.sealed => f.recs = <<>> }
    \cup
    { f \in [items : {MainHeader}, sealed : {TRUE}, recs : StreamBodies,
             trail : {TRUE}, cut : {0}, high : 1..MaxHigh,
             pad : {0, MaxPad}] :
        f.high \in HighPlaces(Len(RenderHeader(f.items, TRUE)),
                              Len(RenderFile(f))) }
    \cup
    [items : {MainHeader}, sealed : {TRUE}, recs : StreamBodies,
     trail : BOOLEAN, cut : {0}, high : {0}, pad : {0}]

\* the bytes of a file of the stream
Spoil(f) ==
    IF f.high = 0 THEN Take(RenderFile(f), Len(RenderFile(f)) - f.cut)
    ELSE Take(RenderFile(f), f.high - 1) \o [i \in 1..f.pad |-> "\n"]
         \o <<HighByte>> \o Drop(RenderFile(f), f.high - 1)

\* the bodies of the files the layout is computed over: none, a bit, a
\* vector, a bit after a timestamp, a bit after a real, and a $var after the
\* header is sealed
LayoutBodies ==
    { <<>>,
      <<BitRec("1", IdClk)>>,
      <<VecRec(<<"1", "x">>, IdVec)>>,
      <<CycleRec(5), BitRec("1", IdClk)>>,
      <<RealRec(<<"1", ".", "5">>, IdReal), BitRec("1", IdClk)>>,
      <<ItemRec(VarItem(W_wire, 1, IdNew))>> }

\* every header with every one of these bodies, the main header without its
\* $enddefinitions, and the main header with a bit change of every level
LayoutFiles ==
    { [items |-> h, sealed |-> TRUE, recs |-> b, trail |-> TRUE] :
        h \in Headers, b \in LayoutBodies }
    \cup
    { [items |-> MainHeader, sealed |-> FALSE, recs |-> <<>>, trail |-> TRUE] }
    \cup
    { [items |-> MainHeader, sealed |-> TRUE, recs |-> <<BitRec(ch, IdClk)>>,
       trail |-> TRUE] : ch \in BitChars }

\* the longest header of scopes, in directives
MaxItems == 4

W_module == <<"m", "o", "d", "u", "l", "e">>
W_task == <<"t", "a", "s", "k">>

\* the directives of the headers of scopes: two scopes, $upscope and a $var
ScopeItems ==
    { NamedScope(W_module, <<"t", "o", "p">>), NamedScope(W_task, <<"t", "1">>),
      UpscopeItem, VarItem(W_wire, 1, IdClk) }

\* the kind tokens of types.rs, and one that is none of them
KindTokens ==
    { <<"e", "v", "e", "n", "t">>, <<"i", "n", "t", "e", "g", "e", "r">>,
      <<"p", "a", "r", "a", "m", "e", "t", "e", "r">>, <<"r", "e", "a", "l">>,
      <<"r", "e", "g">>, <<"s", "u", "p", "p", "l", "y", "0">>,
      <<"s", "u", "p", "p", "l", "y", "1">>, <<"t", "i", "m", "e">>,
      <<"t", "r", "i">>, <<"t", "r", "i", "a", "n", "d">>,
      <<"t", "r", "i", "o", "r">>, <<"t", "r", "i", "r", "e", "g">>,
      <<"t", "r", "i", "0">>, <<"t", "r", "i", "1">>, <<"w", "a", "n", "d">>,
      <<"w", "i", "r", "e">>, <<"w", "o", "r">> }
OtherTokens == { <<"l", "o", "g", "i", "c">>, <<"W", "i", "r", "e">> }

\* the widths written in the headers of one variable
Widths == {0 - 2, 0 - 1, 0, 1, 3}

\* the headers of the grammar: every sequence of at most MaxItems scope
\* directives, a variable of every kind token, and a variable of every width
GrammarHeaders ==
    SeqsUpTo(ScopeItems, MaxItems)
    \cup { <<VarItem(k, 1, IdClk)>> : k \in KindTokens \cup OtherTokens }
    \cup { <<VarItem(W_wire, w, IdClk)>> : w \in Widths }
    \cup { <<RangedVar(4, IdVec)>> }

\* the bodies of the grammar: a comment between two records, and a
\* $dumpvars section
GrammarBodies ==
    { <<BitRec("0", IdClk), ItemRec(CommentItem), CycleRec(5)>>,
      <<ItemRec(DumpvarsItem), BitRec("1", IdClk), VecRec(<<"1", "x">>, IdVec),
        ItemRec(EndItem)>>,
      <<ItemRec(CommentItem)>>,
      <<RealRec(<<"1", ".", "5">>, IdReal), ItemRec(EndItem)>> }

GrammarFiles ==
    { [items |-> h, sealed |-> TRUE, recs |-> <<>>, trail |-> TRUE] :
        h \in GrammarHeaders }
    \cup
    { [items |-> MainHeader, sealed |-> TRUE, recs |-> b, trail |-> TRUE] :
        b \in GrammarBodies }

\* the widths declared in the files of the widths, 0 among them
MaxWidth == 2

\* the declarations of these files: a variable of every width up to
\* MaxWidth under each of two ids
WidthItems == { VarItem(W_wire, w, id) : w \in 0..MaxWidth, id \in {IdClk, IdVec} }

\* one or two declarations, and a body that changes the bit, the vector or
\* both
WidthFiles ==
    { [items |-> h, sealed |-> TRUE, recs |-> b, trail |-> TRUE] :
        h \in SeqsUpTo(WidthItems, 2) \ {<<>>},
        b \in { <<BitRec("1", IdClk)>>,
                <<VecRec(<<"1", "x">>, IdVec)>>,
                <<BitRec("1", IdClk), BitRec("x", IdVec)>> } }

\* the longest text skip_until_vcd_end is tried on, in words
MaxWords == 4

\* the words of these texts: $end, the directives that are not $end, a
\* dollar, a word and whitespace
SkipWords ==
    { END_TAG, <<"$", "d", "a", "t", "e">>,
      <<"$", "e", "n", "d", "d", "e", "f", "i", "n", "i", "t", "i", "o", "n">>,
      <<"$">>, <<"f", "o", "o">>, <<" ">>, <<"\n">> }

SkipTexts == { Concat(ws) : ws \in SeqsUpTo(SkipWords, MaxWords) }

\* the directives of a header, each with the whitespace that ends it
HeaderRecords ==
    { RenderItem(it) : it \in ScopeItems \cup {ScopeItem, RangedVar(4, IdVec),
                                               VarItem(W_real, 1, IdReal),
                                               VarItem(W_wire, 0 - 1, IdClk)} }
    \cup { SealText \o <<"\n">>, RenderHeader(<<>>, FALSE) \o <<"\n">> }

\* the records of a body, each with the whitespace that ends it
BodyRecords ==
    { RenderRecord(r) \o <<"\n">> :
        r \in Records \cup { RealRec(<<"1", ".", "5">>, IdReal),
                             ItemRec(CommentItem), ItemRec(DumpvarsItem),
                             ItemRec(EndItem), CycleRec(12) } }

\* every prefix of the texts, the texts included
Prefixes(texts) == UNION { { Take(t, n) : n \in 0..Len(t) } : t \in texts }

\* the windows the grammar functions are tried on
WindowTexts == SkipTexts \cup Prefixes(HeaderRecords \cup BodyRecords)

\* ------------------------------------------------------------------------
\* The state machine
\* ------------------------------------------------------------------------

VARIABLES
    vcd,             \* the file as items and records (what input spells out)
    input,           \* the bytes of the file
    parser,          \* VcdStreamParser: buff, chunk_size, end_of_input
    header_parser,   \* VcdHeaderParser: variables, header_valid, scope
    state,           \* StateSimulation::state
    var_offset,      \* StateSimulation::var_offset
    var_width,       \* StateSimulation::var_width
    tracked_var,     \* StateSimulation::tracked_var
    previous_cycle,
    current_cycle,
    emitted,         \* the commands handed to callbacks so far
    last,            \* the last call: [op, res, cycle]
    returned,        \* the cycles returned by the successful next_cycle calls
    aborted,         \* an assertion failed or the behaviour is undefined: the
                     \* process is not followed further
    calls,           \* how many times each operation was called
    usage            \* how the caller has used the object so far

vars == <<vcd, input, parser, header_parser, state, var_offset, var_width,
          tracked_var, previous_cycle, current_cycle, emitted, last,
          returned, aborted, calls, usage>>

\* no cycle: the call returns none
NoCycle == 0 - 2

Last(op, res, cycle) == [op |-> op, res |-> res, cycle |-> cycle]

\* usage follows the calls: "new", then "loaded" once load_header has
\* succeeded, "allocated" once allocate_state has succeeded after it,
\* "reallocated" when allocate_state succeeds again right after that,
\* "running" while the commands are read after that ("resuming" while they
\* are read by calls that stop, "failed" once such a call fails), and
\* "other" as soon as
\* the caller does anything else (a call out of this order, a failed call,
\* a tracking request after the allocation)
UsageAfter(op, res) ==
    CASE op = "load_header" ->
           IF usage = "new" /\ res = "ok" THEN "loaded" ELSE "other"
      [] op = "track_variables" ->
           IF usage \in {"new", "loaded"} THEN usage ELSE "other"
      [] op = "header_info" -> usage
      [] op = "allocate_state" ->
           IF usage = "loaded" /\ res = "ok" THEN "allocated"
           ELSE IF usage = "allocated" /\ res = "ok" THEN "reallocated"
           ELSE "other"
      [] op = "next_cycle" ->
           IF usage \in {"allocated", "running"} /\ res = "ok"
           THEN "running" ELSE "other"
      [] op = "process_vcd_commands" ->
           IF usage = "loaded" THEN "running" ELSE "other"
      [] op = "process_until_stop" ->
           IF usage \notin {"loaded", "resuming"} THEN "other"
           ELSE IF res = "ok" THEN "resuming" ELSE "failed"
      [] OTHER -> "other"

\* StateSimulation::new (VcdParser::with_chunk_size) over one of the files
InitOver(f, bytes, c) ==
    /\ vcd = f
    /\ input = bytes
    /\ parser = NewStreamParser(c)
    /\ header_parser = NewHeaderParser
    /\ state = <<>>
    /\ var_offset = EmptyMap
    /\ var_width = EmptyMap
    /\ tracked_var = {}
    /\ previous_cycle = -1
    /\ current_cycle = -1
    /\ emitted = <<>>
    /\ last = Last("new", "ok", NoCycle)
    /\ returned = <<>>
    /\ aborted = FALSE
    /\ calls = [load |-> 0, track |-> 0, alloc |-> 0, next |-> 0, process |-> 0,
                info |-> 0, turns |-> 0]
    /\ usage = "new"

InitWith(f, c) == InitOver(f, RenderFile(f), c)

\* StateSimulation::new
Init == \E f \in Files : InitWith(f, SimChunk)


\* what load_header leaves behind, r being its return
LoadHeaderResult(r) ==
    /\ parser' = r.sp
    /\ header_parser' = r.env.hp
    /\ aborted' = (r.res = "panic")
    /\ last' = Last("load_header", r.res, NoCycle)
    /\ usage' = UsageAfter("load_header", r.res)

\* StateSimulation::load_header, VcdParser::load_header, called at most n
\* times
LoadHeaderUpTo(n) ==
    /\ ~aborted
    /\ calls.load < n
    /\ LoadHeaderResult(
           load_header(parser,
                       NewEnv("count", header_parser, <<>>, EmptyMap,
                              EmptyMap, {}, <<>>),
                       input))
    /\ calls' = [calls EXCEPT !.load = @ + 1]
    /\ UNCHANGED <<vcd, input, state, var_offset, var_width, tracked_var,
                   previous_cycle, current_cycle, emitted, returned>>

LoadHeader == LoadHeaderUpTo(MaxLoads)

\* StateSimulation::track_variables
TrackVariables(ids) ==
    /\ ~aborted
    /\ calls.track < MaxTracks
    /\ tracked_var' = tracked_var \cup ids
    /\ last' = Last("track_variables", "ok", NoCycle)
    /\ usage' = UsageAfter("track_variables", "ok")
    /\ calls' = [calls EXCEPT !.track = @ + 1]
    /\ UNCHANGED <<vcd, input, parser, header_parser, state, var_offset,
                   var_width, previous_cycle, current_cycle, emitted,
                   returned, aborted>>

\* StateSimulation::allocate_state, called at most n times
AllocateStateUpTo(n) ==
    /\ ~aborted
    /\ calls.alloc < n
    /\ LET r == allocate_state(header_parser, state, var_offset, var_width,
                               tracked_var)
       IN  /\ state' = r.state
           /\ var_offset' = r.var_offset
           /\ var_width' = r.var_width
           /\ aborted' = (r.res = "panic")
           /\ last' = Last("allocate_state", r.res, NoCycle)
           /\ usage' = UsageAfter("allocate_state", r.res)
    /\ calls' = [calls EXCEPT !.alloc = @ + 1]
    /\ UNCHANGED <<vcd, input, parser, header_parser, tracked_var,
                   previous_cycle, current_cycle, emitted, returned>>

AllocateState == AllocateStateUpTo(MaxAllocs)

\* StateSimulation::header_info: it returns a map and changes nothing
HeaderInfo ==
    /\ ~aborted
    /\ calls.info < MaxInfos
    /\ last' = Last("header_info", header_info(header_parser, var_offset).res,
                    NoCycle)
    /\ usage' = UsageAfter("header_info", "ok")
    /\ calls' = [calls EXCEPT !.info = @ + 1]
    /\ UNCHANGED <<vcd, input, parser, header_parser, state, var_offset,
                   var_width, tracked_var, previous_cycle, current_cycle,
                   emitted, returned, aborted>>

\* the end of next_cycle with a fault: it returns the cycle that stopped
\* it, not the one before
NextCycleResult_ReturnsNew(r) ==
    /\ parser' = r.sp
    /\ state' = r.env.state
    /\ emitted' = r.env.cmds
    /\ aborted' = (r.res = "panic")
    /\ usage' = UsageAfter("next_cycle", r.res)
    /\ IF r.res = "ok"
       THEN /\ previous_cycle' = current_cycle
            /\ current_cycle' = r.env.cycle
            /\ returned' = Append(returned, r.env.cycle)
            /\ last' = Last("next_cycle", "ok", r.env.cycle)
       ELSE /\ UNCHANGED <<previous_cycle, current_cycle, returned>>
            /\ last' = Last("next_cycle", r.res, NoCycle)

\* the end of next_cycle with a fault: the cycles are set whatever
\* process_vcd_commands returned
NextCycleResult_ErrorSetsCycles(r) ==
    /\ parser' = r.sp
    /\ state' = r.env.state
    /\ emitted' = r.env.cmds
    /\ aborted' = (r.res = "panic")
    /\ usage' = UsageAfter("next_cycle", r.res)
    /\ previous_cycle' = current_cycle
    /\ current_cycle' = r.env.cycle
    /\ returned' = IF r.res = "ok" THEN Append(returned, current_cycle)
                   ELSE returned
    /\ last' = Last("next_cycle", r.res, IF r.res = "ok" THEN current_cycle
                                         ELSE NoCycle)

\* the end of next_cycle, r being what process_vcd_commands returned; an
\* error leaves the counters alone but keeps what the callback wrote
\* before it
NextCycleResult(r) ==
    /\ parser' = r.sp
    /\ state' = r.env.state
    /\ emitted' = r.env.cmds
    /\ aborted' = (r.res = "panic")
    /\ usage' = UsageAfter("next_cycle", r.res)
    /\ IF r.res = "ok"
       THEN /\ previous_cycle' = current_cycle
            /\ current_cycle' = r.env.cycle
            /\ returned' = Append(returned, current_cycle)
            /\ last' = Last("next_cycle", "ok", current_cycle)
       ELSE /\ UNCHANGED <<previous_cycle, current_cycle, returned>>
            /\ last' = Last("next_cycle", r.res, NoCycle)

\* the body of StateSimulation::next_cycle
NextCycleBody ==
    NextCycleResult(
        next_cycle(parser, header_parser, state, var_offset, var_width,
                   tracked_var, emitted, input))

\* StateSimulation::next_cycle
NextCycle ==
    /\ ~aborted
    /\ calls.next < MaxNext
    /\ NextCycleBody
    /\ calls' = [calls EXCEPT !.next = @ + 1]
    /\ UNCHANGED <<vcd, input, header_parser, var_offset, var_width,
                   tracked_var>>

\* wave_sim_next_cycle, the FFI entry: EndOfInput when the parser is done,
\* StateSimulation::next_cycle otherwise
WaveSimNextCycle ==
    /\ ~aborted
    /\ calls.next < MaxNext
    /\ IF done(parser)
       THEN /\ last' = Last("wave_sim_next_cycle", "EndOfInput", NoCycle)
            /\ usage' = UsageAfter("next_cycle", "EndOfInput")
            /\ UNCHANGED <<parser, state, emitted, aborted, previous_cycle,
                           current_cycle, returned>>
       ELSE NextCycleBody
    /\ calls' = [calls EXCEPT !.next = @ + 1]
    /\ UNCHANGED <<vcd, input, header_parser, var_offset, var_width,
                   tracked_var>>

\* what process_vcd_commands leaves behind, r being its return and op the
\* name the call goes by
ProcessCommandsResult(op, r) ==
    /\ parser' = r.sp
    /\ emitted' = r.env.cmds
    /\ aborted' = (r.res = "panic")
    /\ last' = Last(op, r.res, NoCycle)
    /\ usage' = UsageAfter(op, r.res)

\* VcdParser::process_vcd_commands with the callback cb, called at most n
\* times
ProcessUpTo(cb, n) ==
    /\ ~aborted
    /\ calls.process < n
    /\ ProcessCommandsResult(
           IF cb = "count" THEN "process_vcd_commands" ELSE "process_until_stop",
           process_vcd_commands(parser,
                                NewEnv(cb, header_parser, <<>>, EmptyMap,
                                       EmptyMap, {}, emitted),
                                input))
    /\ calls' = [calls EXCEPT !.process = @ + 1]
    /\ UNCHANGED <<vcd, input, header_parser, state, var_offset, var_width,
                   tracked_var, previous_cycle, current_cycle, returned>>

\* VcdParser::process_vcd_commands with a callback that never stops
ProcessCommands == ProcessUpTo("count", MaxProcess)

\* the simulation: its operations in any order
Next ==
    \/ LoadHeader
    \/ \E ids \in TrackSets : TrackVariables(ids)
    \/ AllocateState
    \/ NextCycle
    \/ WaveSimNextCycle

Spec == Init /\ [][Next]_vars

\* VcdParser::with_chunk_size
InitParse == \E f \in Files, c \in ChunkSizes : InitWith(f, c)

\* the parser alone: its two operations in any order, process_vcd_commands
\* with a callback that never stops or with one that does
NextParse ==
    \/ LoadHeader
    \/ ProcessCommands
    \/ ProcessUpTo("stop", MaxResume)

SpecParse == InitParse /\ [][NextParse]_vars

\* VcdParser::with_chunk_size over a file that is cut short or holds a byte
\* >= 128
InitStream ==
    \E f \in StreamFiles, c \in ChunkSizes : InitOver(f, Spoil(f), c)

\* The parser, and the simulation built on it (chunk size SimChunk), over
\* such files.  No call is made after one that returned Utf8Error: the
\* window then holds bytes that are not UTF-8, and run_parser reads it
\* through str::from_utf8_unchecked
NextStream ==
    \/ last.res # "Utf8Error" /\ LoadHeader
    \/ last.res # "Utf8Error" /\ ProcessCommands
    \/ last.res # "Utf8Error" /\ parser.chunk_size = SimChunk /\ AllocateState
    \/ last.res # "Utf8Error" /\ parser.chunk_size = SimChunk /\ NextCycle

\* a parser whose window holds the whole of text after one refill
InitWindow ==
    \E text \in WindowTexts :
        /\ InitOver([items |-> <<>>, sealed |-> FALSE, recs |-> <<>>,
                     trail |-> FALSE],
                    text, SimChunk)

\* what a grammar function leaves behind when it has returned r on the
\* window w: what run_parser records of it, the bytes consumed on Ok
GrammarResult(op, w, r) ==
    /\ parser' = [parser EXCEPT !.buff =
                     IF r.k = "ok"
                     THEN consume(BufferRefill(@, Len(w), w).b, Len(w) - Len(r.rest))
                     ELSE BufferRefill(@, Len(w), w).b]
    /\ last' = Last(op, r.k, NoCycle)
    /\ emitted' = IF op = "vcd_command" /\ r.k = "ok" THEN <<r.v>> ELSE emitted
    /\ header_parser' = IF op = "next_header_command" THEN r.hp ELSE header_parser
    /\ aborted' = (r.k = "panic")
    /\ usage' = "other"
    /\ UNCHANGED <<vcd, input, state, var_offset, var_width, tracked_var,
                   previous_cycle, current_cycle, returned, calls>>

\* skip_until_vcd_end on the window
SkipUntilEnd ==
    /\ last.op = "new"
    /\ GrammarResult("skip_until_vcd_end", input, skip_until_vcd_end(input))

\* vcd_command on the window
VcdCommandOnWindow ==
    /\ last.op = "new"
    /\ GrammarResult("vcd_command", input, Parse(vcd_command, input))

\* next_header_command on the window
HeaderCommandOnWindow ==
    /\ last.op = "new"
    /\ GrammarResult("next_header_command", input,
                     next_header_command(header_parser, input))

\* the grammar functions, each on a window of its own
NextWindow ==
    \/ SkipUntilEnd
    \/ VcdCommandOnWindow
    \/ HeaderCommandOnWindow

SpecWindow == InitWindow /\ [][NextWindow]_vars

\* StateSimulation::new over the files of the widths
InitWidth == \E f \in WidthFiles : InitWith(f, SimChunk)

\* the simulation over these files
NextWidth ==
    \/ LoadHeader
    \/ AllocateState
    \/ NextCycle

SpecWidth == InitWidth /\ [][NextWidth]_vars

\* ------------------------------------------------------------------------
\* The loops of the parser, one turn at a time
\* ------------------------------------------------------------------------

\* The calls of load_header and process_vcd_commands taken one turn of a
\* loop at a time.  While a call runs, last.res is "pending" and usage is
\* the place the call has reached:
\*   "run_parser"   the top of run_parser's loop, before f is called
\*   "incomplete"   f has returned MissingData, before refill(false)
\*   "ok, stop"     f has returned Ok and its bytes are consumed; the caller's
\*                  loop will end (the header is sealed, or the callback
\*                  has returned true)
\*   "ok, go on"    the same, the caller's loop will go on
\*   "trim, first"  the top of trim_refill's loop, in the refill that
\*                  process_vcd_commands makes on an empty window
\*   "trim, stop" and "trim, go on"
\*                  the top of trim_refill's loop, in the refill that
\*                  run_parser makes once the window is empty
\* next_cycle has no loop of its own: it calls process_vcd_commands

\* the files of the loops: every record is followed by pad line feeds, so
\* that a chunk can hold nothing but whitespace
LoopFiles ==
    { f \in [items : {MainHeader}, sealed : BOOLEAN, recs : StreamBodies,
             trail : BOOLEAN, pad : {1, MaxPad}] :
        ~f.sealed => f.recs = <<>> }

Lines(n) == [i \in 1..n |-> "\n"]

\* the bytes of a file of the loops
RenderPadded(f) ==
    RenderHeader(f.items, f.sealed)
    \o Concat([i \in 1..Len(f.recs) |-> Lines(f.pad) \o RenderRecord(f.recs[i])])
    \o (IF f.trail THEN Lines(f.pad) ELSE <<>>)

Pending == last.res = "pending"

\* the call in progress takes one more turn of its loops: calls.turns
\* counts the turns of the call, up to MaxTurns
Turn ==
    /\ Pending
    /\ calls.turns < MaxTurns
    /\ calls' = [calls EXCEPT !.turns = @ + 1]

\* the closure of the call in progress is load_header's
HeaderMode == last.op = "load_header"

\* what the closure of the call in progress captures
LoopEnv ==
    NewEnv(IF last.op = "process_until_stop" THEN "stop" ELSE "count",
           header_parser, <<>>, EmptyMap, EmptyMap, {}, emitted)

\* the call in progress returns res
Return(res) ==
    /\ last' = Last(last.op, res, NoCycle)
    /\ usage' = "returned"
    /\ aborted' = (res = "panic")

\* run_parser has returned Ok to the loop of its caller, sp being the
\* stream parser it leaves: load_header returns when the header is
\* sealed, process_vcd_commands when the callback has stopped it or when
\* the parser is done, and both call run_parser again otherwise
BackToCaller(sp, stop) ==
    /\ parser' = sp
    /\ IF stop \/ (~HeaderMode /\ done(sp))
       THEN Return("ok")
       ELSE /\ usage' = "run_parser"
            /\ UNCHANGED <<last, aborted>>

\* VcdParser::load_header is called
StartLoadHeader ==
    /\ ~Pending /\ ~aborted
    /\ calls.load < MaxLoads
    /\ last' = Last("load_header", "pending", NoCycle)
    /\ usage' = "run_parser"
    /\ calls' = [calls EXCEPT !.load = @ + 1, !.turns = 0]
    /\ UNCHANGED <<vcd, input, parser, header_parser, state, var_offset,
                   var_width, tracked_var, previous_cycle, current_cycle,
                   emitted, returned, aborted>>

\* VcdParser::process_vcd_commands is called with the callback cb: an empty
\* window is refilled first; a window that is not empty goes to run_parser
\* (should_stop is false and the parser is not done)
StartProcess(cb) ==
    /\ ~Pending /\ ~aborted
    /\ calls.process < MaxProcess + 1
    /\ last' = Last(IF cb = "stop" THEN "process_until_stop"
                    ELSE "process_vcd_commands", "pending", NoCycle)
    /\ usage' = IF BufferLen(parser.buff) = 0 THEN "trim, first"
                ELSE "run_parser"
    /\ calls' = [calls EXCEPT !.process = @ + 1, !.turns = 0]
    /\ UNCHANGED <<vcd, input, parser, header_parser, state, var_offset,
                   var_width, tracked_var, previous_cycle, current_cycle,
                   emitted, returned, aborted>>

\* one turn of run_parser's loop up to the match: f is called on the
\* window and has returned r; on Ok the bytes it consumed are consumed
ParseTurnWith(r) ==
    /\ CASE r.k = "ok" ->
              /\ parser' = [parser EXCEPT !.buff =
                               consume(@, BufferLen(@) - Len(r.rest))]
              /\ header_parser' = r.env.hp
              /\ emitted' = r.env.cmds
              /\ usage' = IF (HeaderMode /\ r.v) \/ r.env.should_stop
                          THEN "ok, stop" ELSE "ok, go on"
              /\ UNCHANGED <<last, aborted>>
         [] r.k = "inc" ->
              /\ usage' = "incomplete"
              /\ UNCHANGED <<parser, header_parser, emitted, last, aborted>>
         [] r.k = "panic" ->
              /\ Return("panic")
              /\ emitted' = r.env.cmds
              /\ UNCHANGED <<parser, header_parser>>
         [] OTHER ->
              /\ Return("ParseError")
              /\ UNCHANGED <<parser, header_parser, emitted>>
    /\ UNCHANGED <<vcd, input, state, var_offset, var_width, tracked_var,
                   previous_cycle, current_cycle, returned>>

ParseTurn ==
    /\ Turn /\ usage = "run_parser"
    /\ ParseTurnWith(ParserStep(IF HeaderMode THEN "header" ELSE "command",
                                LoopEnv, BufferData(parser.buff)))

\* the Ok arm of run_parser after the bytes are consumed: an empty window
\* is refilled with trimming, a short one is moved to the start of the
\* array and refilled
OkTurn ==
    /\ Turn /\ usage \in {"ok, stop", "ok, go on"}
    /\ IF BufferLen(parser.buff) = 0
       THEN /\ usage' = IF usage = "ok, stop" THEN "trim, stop"
                        ELSE "trim, go on"
            /\ UNCHANGED <<parser, last, aborted>>
       ELSE IF ~parser.end_of_input /\ BufferLen(parser.buff) <= ShortWindow
       THEN IF refill([parser EXCEPT !.buff = shift(@)], FALSE, input).res
                   # "ok"
            THEN /\ parser' = refill([parser EXCEPT !.buff = shift(@)], FALSE,
                                     input).sp
                 /\ Return(refill([parser EXCEPT !.buff = shift(@)], FALSE,
                                  input).res)
            ELSE BackToCaller(refill([parser EXCEPT !.buff = shift(@)], FALSE,
                                     input).sp,
                              usage = "ok, stop")
       ELSE BackToCaller(parser, usage = "ok, stop")
    /\ UNCHANGED <<vcd, input, header_parser, state, var_offset, var_width,
                   tracked_var, previous_cycle, current_cycle, emitted,
                   returned>>

\* the MissingData arm of run_parser: a refill, and the end of the loop
\* when it read nothing
IncompleteTurn ==
    /\ Turn /\ usage = "incomplete"
    /\ parser' = refill(parser, FALSE, input).sp
    /\ IF refill(parser, FALSE, input).res # "ok"
       THEN Return(refill(parser, FALSE, input).res)
       ELSE IF refill(parser, FALSE, input).n = 0
               /\ refill(parser, FALSE, input).sp.end_of_input
       THEN Return("MissingData")
       ELSE /\ usage' = "run_parser"
            /\ UNCHANGED <<last, aborted>>
    /\ UNCHANGED <<vcd, input, header_parser, state, var_offset, var_width,
                   tracked_var, previous_cycle, current_cycle, emitted,
                   returned>>

\* the end of a trimming refill, a being what refill returns
TrimmedWith(a) ==
    IF a.res # "ok" THEN parser' = a.sp /\ Return(a.res)
    ELSE IF usage = "trim, first" /\ a.n = 0
    THEN parser' = a.sp /\ Return("ok")
    ELSE BackToCaller(a.sp, usage = "trim, stop")

\* one turn of trim_refill's loop with a fault: the loop ends only when
\* fewer bytes were trimmed than were read
TrimTurnWith_NoZeroTest(r, t) ==
    IF t.n < r.n
    THEN TrimmedWith(AfterRefill(parser, TRUE, [b |-> t.b, n |-> r.n - t.n]))
    ELSE /\ parser' = [parser EXCEPT !.buff = t.b]
         /\ UNCHANGED <<usage, last, aborted>>

\* one turn of trim_refill's loop, r being what the buffer's refill
\* returned and t what trim returned: the loop goes on when the bytes read
\* were all whitespace
TrimTurnWith(r, t) ==
    IF t.n = 0 \/ t.n < r.n
    THEN TrimmedWith(AfterRefill(parser, TRUE, [b |-> t.b, n |-> r.n - t.n]))
    ELSE /\ parser' = [parser EXCEPT !.buff = t.b]
         /\ UNCHANGED <<usage, last, aborted>>

TrimTurn ==
    /\ Turn /\ usage \in {"trim, first", "trim, stop", "trim, go on"}
    /\ TrimTurnWith(BufferRefill(parser.buff, parser.chunk_size, input),
                    trim(BufferRefill(parser.buff, parser.chunk_size, input).b))
    /\ UNCHANGED <<vcd, input, header_parser, state, var_offset, var_width,
                   tracked_var, previous_cycle, current_cycle, emitted,
                   returned>>

InitLoop ==
    \E f \in LoopFiles, c \in ChunkSizes : InitOver(f, RenderPadded(f), c)

NextLoop ==
    \/ StartLoadHeader
    \/ \E cb \in {"count", "stop"} : StartProcess(cb)
    \/ ParseTurn
    \/ OkTurn
    \/ IncompleteTurn
    \/ TrimTurn

\* the program goes on: the call in progress takes the turn that is due
SpecLoop == InitLoop /\ [][NextLoop]_vars /\ WF_calls(Turn)

\* VcdParser::with_chunk_size over the files of the grammar
InitGrammar == \E f \in GrammarFiles, c \in ChunkSizes : InitWith(f, c)

\* the parser over these files: the header, then the body
NextGrammar ==
    \/ LoadHeader
    \/ usage = "loaded" /\ ProcessCommands

SpecGrammar == InitGrammar /\ [][NextGrammar]_vars

SpecStream == InitStream /\ [][NextStream]_vars

\* what a call may return
Outcomes == {"ok", "MissingData", "ParseError", "Utf8Error", "panic"}

\* A parser call made after one that returned Utf8Error.  Nothing in
\* VcdStreamParser remembers the error, and Buffer::refill has already added
\* the bytes it read to the window, so run_parser hands that window to the
\* grammar through str::from_utf8_unchecked.  The language does not define
\* what follows: the call may return anything, and the process is not
\* followed further
CallAfterUtf8Error ==
    /\ ~aborted
    /\ last.res = "Utf8Error"
    /\ \E op \in {"load_header", "process_vcd_commands"}, res \in Outcomes :
          /\ last' = Last(op, res, NoCycle)
          /\ calls' = IF op = "load_header"
                      THEN [calls EXCEPT !.load = @ + 1]
                      ELSE [calls EXCEPT !.process = @ + 1]
    /\ aborted' = TRUE
    /\ usage' = "other"
    /\ UNCHANGED <<vcd, input, parser, header_parser, state, var_offset,
                   var_width, tracked_var, previous_cycle, current_cycle,
                   emitted, returned>>

\* the parser over such files, with callers that go on after an error
NextRetry ==
    \/ NextStream
    \/ CallAfterUtf8Error

SpecRetry == InitStream /\ [][NextRetry]_vars

\* StateSimulation::new
InitLayout == \E f \in LayoutFiles : InitWith(f, SimChunk)

\* the simulation with its header loaded and its layout computed more than
\* once
NextLayout ==
    \/ LoadHeaderUpTo(MaxReloads)
    \/ \E ids \in TrackSets : TrackVariables(ids)
    \/ AllocateStateUpTo(MaxReallocs)
    \/ NextCycle
    \/ HeaderInfo

SpecLayout == InitLayout /\ [][NextLayout]_vars


\* ------------------------------------------------------------------------
\* Properties of the simulation's layout and writes
\* ------------------------------------------------------------------------

RECURSIVE SumWidths(_)
SumWidths(m) ==
    IF DOMAIN m = {} THEN 0
    ELSE LET id == CHOOSE x \in DOMAIN m : TRUE
         IN  m[id] + SumWidths([x \in DOMAIN m \ {id} |-> m[x]])

\* the bytes [offset, offset + width) of an allocated id, as 1-based indices
RangeOf(id) == (var_offset[id] + 1)..(var_offset[id] + var_width[id])

\* the value change passes the filter of next_cycle's callback
Tracked(id) == tracked_var = {} \/ id \in tracked_var

\* C9: after every successful allocate_state the widths recorded in the
\* id -> width map add up to the length of the state vector
C9_WidthsSumToStateLength ==
    (last.op = "allocate_state" /\ last.res = "ok")
        => SumWidths(var_width) = Len(state)

\* an allocation over a header that declares an id twice and a real, under
\* a tracking set or none
C9_Witness ==
    /\ last.op = "allocate_state" /\ last.res = "ok"
    /\ Len(header_parser.variables) > Cardinality(DOMAIN var_width)
    /\ Len(state) > 0

\* C10: after allocate_state and after every next_cycle the byte ranges of
\* two distinct allocated ids do not overlap
C10_RangesDisjoint ==
    (last.op \in {"allocate_state", "next_cycle"})
        => \A a, b \in DOMAIN var_offset :
              a # b => RangeOf(a) \cap RangeOf(b) = {}

\* a next_cycle over a layout of two ids, both of a width above zero
C10_Witness ==
    /\ last.op = "next_cycle" /\ last.res = "ok"
    /\ \E a, b \in DOMAIN var_offset :
          a # b /\ RangeOf(a) # {} /\ RangeOf(b) # {}

\* the j-th command handed to the callback is a Vector change that
\* next_cycle's callback writes: it passes the filter, its id is allocated
\* and the same call hands over no later change of that id
LastVectorWrite(cmds, j, from) ==
    /\ j > from
    /\ cmds[j].t = "ValueChange" /\ cmds[j].vt = "Vector"
    /\ Tracked(cmds[j].var_id)
    /\ cmds[j].var_id \in DOMAIN var_offset
    /\ \A n \in (j + 1)..Len(cmds) :
          ~(cmds[n].t = "ValueChange" /\ cmds[n].var_id = cmds[j].var_id)

\* C8: when next_cycle applies a Vector change whose literal is as long as
\* the variable is wide, the byte at offset + i holds the logic level of the
\* literal's i-th character, the leftmost one being i = 0
C8_VectorMsbFirst ==
    [][calls'.next = calls.next + 1 =>
        \A j \in 1..Len(emitted') :
            (/\ LastVectorWrite(emitted', j, Len(emitted))
             /\ Len(emitted'[j].val) = var_width[emitted'[j].var_id])
            => \A i \in 0..(var_width[emitted'[j].var_id] - 1) :
                  state'[var_offset[emitted'[j].var_id] + i + 1]
                      = logic_level(emitted'[j].val[i + 1])]_vars

\* a full-width literal whose characters differ has been written
C8_Witness ==
    /\ last.op = "next_cycle" /\ last.res = "ok"
    /\ IdVec \in DOMAIN var_offset /\ var_width[IdVec] = 2
    /\ \E j \in 1..Len(emitted) :
          /\ emitted[j].t = "ValueChange" /\ emitted[j].vt = "Vector"
          /\ emitted[j].val = <<"1", "x">>
    /\ state[var_offset[IdVec] + 1] = 1
    /\ state[var_offset[IdVec] + 2] = 0 - 4

\* the literal left-extended to width w with its leftmost character
LeftExtend(val, w) ==
    [i \in 1..w |-> IF i <= w - Len(val) THEN val[1] ELSE val[i - (w - Len(val))]]

\* C7: a Vector change whose literal is shorter than the variable is wide
\* does not abort next_cycle, which writes the literal left-extended with
\* its leftmost character into the variable's bytes
C7_ShortLiteralLeftExtended ==
    (/\ last.op = "next_cycle"
     /\ \E j \in 1..Len(emitted) :
           /\ LastVectorWrite(emitted, j, 0)
           /\ Len(emitted[j].val) < var_width[emitted[j].var_id])
    => /\ ~aborted
       /\ \A j \in 1..Len(emitted) :
             (/\ LastVectorWrite(emitted, j, 0)
              /\ Len(emitted[j].val) < var_width[emitted[j].var_id])
             => \A i \in 1..var_width[emitted[j].var_id] :
                   state[var_offset[emitted[j].var_id] + i]
                       = logic_level(LeftExtend(emitted[j].val,
                                         var_width[emitted[j].var_id])[i])

\* ------------------------------------------------------------------------
\* Properties of the cycles next_cycle returns
\* ------------------------------------------------------------------------

\* the values of the timestamp records of the body, in stream order
Timestamps(recs) ==
    SelectSeq([i \in 1..Len(recs) |-> recs[i]], LAMBDA r : r.t = "cycle")

\* how many of the first n records are timestamps
RECURSIVE TimestampsIn(_, _)
TimestampsIn(recs, n) ==
    IF n = 0 THEN 0
    ELSE TimestampsIn(recs, n - 1) + (IF recs[n].t = "cycle" THEN 1 ELSE 0)

\* the records located before the k-th timestamp record, all of them when
\* the body has fewer than k timestamps
RecordsBefore(recs, k) ==
    SelectSeq([i \in 1..Len(recs) |-> [r |-> recs[i], n |-> TimestampsIn(recs, i)]],
              LAMBDA p : p.n < k)

\* the state vector after the value changes of ps are applied in order to
\* st, by the layout and the filter in force
RECURSIVE StateAfter(_, _)
StateAfter(st, ps) ==
    IF ps = <<>> THEN st
    ELSE LET r == Head(ps).r
             on == /\ r.t \in {"bit", "vec"}
                   /\ Tracked(r.id)
                   /\ r.id \in DOMAIN var_offset
         IN  StateAfter(
                 [i \in 1..Len(st) |->
                     IF on /\ i \in (var_offset[r.id] + 1)..(var_offset[r.id] + Len(r.val))
                     THEN logic_level(r.val[i - var_offset[r.id]])
                     ELSE st[i]],
                 Tail(ps))

Zeros(n) == [i \in 1..n |-> 0]

\* C2: for k >= 2 the k-th successful next_cycle returns the (k-1)-th
\* timestamp of the body, and the state vector holds exactly the value
\* changes located before the k-th timestamp record (before the end of the
\* input when there is none), applied in stream order
C2_KthCallReturnsPreviousTimestamp ==
    (/\ usage = "running"
     /\ Len(returned) >= 2
     /\ Len(returned) - 1 <= Len(Timestamps(vcd.recs)))
    => /\ returned[Len(returned)] = Timestamps(vcd.recs)[Len(returned) - 1].c
       /\ state = StateAfter(Zeros(Len(state)),
                             RecordsBefore(vcd.recs, Len(returned)))

\* the second call has returned the first timestamp and applied the change
\* that follows it
C2_Witness ==
    /\ usage = "running"
    /\ returned = <<0 - 1, 5>>
    /\ vcd.recs = <<CycleRec(5), BitRec("1", IdClk), CycleRec(3)>>
    /\ state[var_offset[IdClk] + 1] = 1

\* C3: both counters start at -1; the first next_cycle after load_header
\* and allocate_state returns -1 with the value changes located before the
\* first timestamp applied, and the second returns the first timestamp
C3_FirstCallReturnsMinusOne ==
    /\ last.op = "new" => previous_cycle = 0 - 1 /\ current_cycle = 0 - 1
    /\ (usage = "running" /\ Len(returned) >= 1) => returned[1] = 0 - 1
    /\ (usage = "running" /\ Len(returned) = 1)
          => state = StateAfter(Zeros(Len(state)), RecordsBefore(vcd.recs, 1))
    /\ (usage = "running" /\ Len(returned) >= 2 /\ Timestamps(vcd.recs) # <<>>)
          => returned[2] = Timestamps(vcd.recs)[1].c

\* the first call has applied a change located before the first timestamp
\* and the second has returned that timestamp
C3_Witness ==
    /\ usage = "running"
    /\ returned = <<0 - 1, 3>>
    /\ vcd.recs = <<BitRec("1", IdClk), CycleRec(3)>>
    /\ state[var_offset[IdClk] + 1] = 1

\* the timestamps of the body never decrease
Ordered(recs) ==
    \A i, j \in 1..Len(Timestamps(recs)) :
        i < j => Timestamps(recs)[i].c <= Timestamps(recs)[j].c

\* how many timestamps next_cycle's callback has been handed
Observed == Len(SelectSeq(emitted, LAMBDA c : c.t = "SetCycle"))

\* C4: a next_cycle called when the parser is done fails with EndOfInput,
\* and the parser is done after load_header when the input ends exactly
\* after `$enddefinitions $end`
C4_EndOfInputWhenDone ==
    [][/\ (done(parser) /\ calls'.next = calls.next + 1)
            => last'.res = "EndOfInput"
       /\ (/\ vcd.recs = <<>> /\ ~vcd.trail
           /\ calls.next = 0 /\ calls'.load = calls.load + 1)
            => done(parser')]_vars

\* C5: the cycles the successful next_cycle calls return never decrease
\* after the initial -1, however many calls are made, here over the bodies
\* whose timestamps never decrease
C5_ReturnedNonDecreasing ==
    (usage = "running" /\ Ordered(vcd.recs))
    => \A i, j \in 2..Len(returned) : i < j => returned[i] <= returned[j]

\* C6: once next_cycle has observed two timestamps, previous_cycle is at
\* most current_cycle, however many calls follow, here over the bodies
\* whose timestamps never decrease
C6_PreviousAtMostCurrent ==
    (usage = "running" /\ Ordered(vcd.recs) /\ Observed >= 2)
    => previous_cycle <= current_cycle

\* ------------------------------------------------------------------------
\* Properties of the parser
\* ------------------------------------------------------------------------

\* what a caller sees of a parse: the result, and on success the number of
\* header variables and the commands handed to the callback
Outcome(res, hp, cmds) ==
    [res |-> res,
     variables |-> IF res = "ok" THEN Len(hp.variables) ELSE 0,
     cmds |-> IF res = "ok" THEN cmds ELSE <<>>]

\* load_header, then process_vcd_commands with a callback that never stops,
\* over the bytes inp read in chunks of c (tests/vcd_parser.rs parse_file)
ParseFile(inp, c) ==
    LET env == NewEnv("count", NewHeaderParser, <<>>, EmptyMap, EmptyMap, {}, <<>>)
        h == load_header(NewStreamParser(c), env, inp)
        p == process_vcd_commands(h.sp, h.env, inp)
    IN  IF h.res # "ok" THEN Outcome(h.res, h.env.hp, <<>>)
        ELSE Outcome(p.res, p.env.hp, p.env.cmds)

\* load_header has failed, or has succeeded and process_vcd_commands has
\* returned after it
Parsed ==
    \/ last.op = "load_header" /\ last.res # "ok" /\ calls.process = 0
    \/ last.op = "process_vcd_commands" /\ usage = "running"

\* C1: load_header followed by process_vcd_commands gives the same outcome,
\* the same number of header variables and the same commands under any two
\* chunk sizes
C1_ChunkSizeInvariance ==
    Parsed => \A c \in ChunkSizes :
                 ParseFile(input, c) = Outcome(last.res, header_parser, emitted)

\* ------------------------------------------------------------------------
\* Properties of the layout when it is computed again
\* ------------------------------------------------------------------------

\* C11: in every state after allocate_state, every allocated id satisfies
\* offset + width <= length of the state vector
C11_AllocatedWithinState ==
    (calls.alloc > 0 /\ ~aborted)
    => \A id \in DOMAIN var_offset :
          var_offset[id] + var_width[id] <= Len(state)

\* the layout was computed twice, the second time over fewer ids, and
\* next_cycle has run over it
C11_Witness ==
    /\ calls.alloc = 2 /\ ~aborted
    /\ last.op = "next_cycle" /\ last.res = "ok"
    /\ DOMAIN var_offset = {IdClk}
    /\ Len(state) = 1

\* C12: in every state of the simulation, after any sequence of
\* allocate_state and next_cycle calls, every byte of the state vector
\* has a value in {-5, -4, -3, -2, -1, 0, 1}
C12_StateBytesAreLevels ==
    \A i \in 1..Len(state) : state[i] \in -5..1

\* a vector holding 1 and x was written, then the layout was computed again
C12_Witness ==
    /\ calls.alloc = 2 /\ ~aborted
    /\ last.op = "allocate_state" /\ last.res = "ok"
    /\ \E i, j \in 1..Len(state) : state[i] = 1 /\ state[j] = -4

\* C13: header_info returns one entry per variable declared in the header,
\* also when several declarations share an id, and the offset of an entry
\* is present exactly when allocate_state allocated that variable
C13_HeaderInfoEntryPerVariable ==
    (last.op = "header_info" /\ last.res = "ok")
    => LET r == header_info(header_parser, var_offset)
       IN  /\ Cardinality(DOMAIN r.info) = Len(header(header_parser)[1])
           /\ \A id \in DOMAIN r.info :
                 (r.info[id].offset # <<>>) <=> (id \in DOMAIN var_offset)

\* declarations i < j of the header share their id
SameId(i, j) ==
    /\ i < j /\ j <= Len(header_parser.variables)
    /\ header_parser.variables[i].id = header_parser.variables[j].id

\* declaration i is one allocate_state gives room to when it comes first:
\* not a real, and tracked when there is a tracking set
Allocatable(i) ==
    /\ header_parser.variables[i].kind # "VcdReal"
    /\ Tracked(header_parser.variables[i].id)

\* C14, as stated: when allocate_state processes a header in which an id
\* is declared twice, equal widths allocate the id exactly once (one offset,
\* its width counted once in the vector length) and the second declaration
\* is silently accepted; different widths abort the simulation
C14_DuplicateIds ==
    (last.op = "allocate_state" /\ last.res # "PartialHeader")
    => LET vs == header_parser.variables
           n == Len(vs)
       IN  IF \E i, j \in 1..n : SameId(i, j) /\ vs[i].width # vs[j].width
           THEN aborted
           ELSE /\ last.res = "ok"
                /\ \A i, j \in 1..n :
                      SameId(i, j)
                      => /\ vs[i].id \in DOMAIN var_offset
                         /\ var_width[vs[i].id] = vs[i].width
                /\ Len(state) = SumWidths(var_width)

\* C14, amended: the same, for an id that allocate_state allocates (an
\* earlier declaration of it is not a real and passes the tracking set);
\* the declarations of an id that is not allocated are not compared
C14_DuplicateAllocatedIds ==
    (last.op = "allocate_state" /\ last.res # "PartialHeader")
    => LET vs == header_parser.variables
           n == Len(vs)
       IN  IF \E i, j \in 1..n :
                 SameId(i, j) /\ Allocatable(i) /\ vs[i].width # vs[j].width
           THEN aborted
           ELSE /\ last.res = "ok"
                /\ \A i, j \in 1..n :
                      (SameId(i, j) /\ Allocatable(i))
                      => /\ vs[i].id \in DOMAIN var_offset
                         /\ var_width[vs[i].id] = vs[i].width
                /\ Len(state) = SumWidths(var_width)

\* an id declared twice with one width is allocated once, under a tracking
\* set that holds it
C14_Witness ==
    /\ last.op = "allocate_state" /\ last.res = "ok"
    /\ tracked_var # {}
    /\ \E i, j \in 1..Len(header_parser.variables) :
          SameId(i, j) /\ Allocatable(i)
    /\ Len(state) = 1

\* the declarations differ in width and the simulation aborts
C14_AbortWitness ==
    /\ last.op = "allocate_state" /\ aborted
    /\ \E i, j \in 1..Len(header_parser.variables) :
          /\ SameId(i, j)
          /\ header_parser.variables[i].width # header_parser.variables[j].width

\* a step that is a call of allocate_state
AllocateStep ==
    /\ calls'.alloc = calls.alloc + 1
    /\ last'.op = "allocate_state"

\* C15: after load_header, allocate_state called twice in a row with the
\* same tracking set leaves the length of the state vector and the
\* id -> offset and id -> width maps as they were after the first call
C15_AllocateTwice ==
    [][ ( /\ last.op = "allocate_state" /\ last.res = "ok"
          /\ AllocateStep /\ tracked_var' = tracked_var )
        => /\ last'.res = "ok"
           /\ Len(state') = Len(state)
           /\ var_offset' = var_offset
           /\ var_width' = var_width ]_vars

\* load_header, allocate_state and allocate_state again, over a header
\* that gives the vector a length
C15_Witness ==
    /\ usage = "reallocated"
    /\ last.op = "allocate_state" /\ last.res = "ok"
    /\ Len(state) > 1
    /\ DOMAIN var_offset = {IdClk, IdVec}

\* C16: right after every successful allocate_state, whatever calls came
\* before it (allocate_state, track_variables, next_cycle), every byte of
\* the state vector is 0
C16_ZeroAfterAllocate ==
    (last.op = "allocate_state" /\ last.res = "ok")
        => \A i \in 1..Len(state) : state[i] = 0

\* a step that is a call of header_info
HeaderInfoStep ==
    /\ calls'.info = calls.info + 1
    /\ last'.op = "header_info"

\* C17: allocate_state and header_info called while the header is not
\* sealed (load_header not called yet, or failed before $enddefinitions)
\* return PartialHeader and leave the state vector and the id -> offset and
\* id -> width maps unchanged
C17_PartialHeader ==
    [][ (~header_parser.header_valid /\ (AllocateStep \/ HeaderInfoStep))
        => /\ last'.res = "PartialHeader"
           /\ state' = state
           /\ var_offset' = var_offset
           /\ var_width' = var_width ]_vars

\* allocate_state after a load_header that read two declarations and met
\* the end of the input before $enddefinitions
C17_Witness ==
    /\ last.op = "allocate_state" /\ last.res = "PartialHeader"
    /\ calls.load > 0
    /\ Len(header_parser.variables) = 2
    /\ ~header_parser.header_valid

\* header_info before load_header
C17_InfoWitness ==
    /\ last.op = "header_info" /\ last.res = "PartialHeader"
    /\ calls.load = 0

\* C20: once the header is sealed by $enddefinitions $end, no later
\* operation (load_header again, process_vcd_commands, next_cycle) takes a
\* $scope, $var, $upscope or $enddefinitions into the header: its variable
\* list and the scope stack never change again
C20_SealedHeaderFrozen ==
    [][ header_parser.header_valid
        => /\ header_parser'.header_valid
           /\ header_parser'.variables = header_parser.variables
           /\ header_parser'.scope = header_parser.scope ]_vars

\* ------------------------------------------------------------------------
\* Properties of the stream: an input cut short, a byte >= 128
\* ------------------------------------------------------------------------

\* what is left of the last record of a file that was cut
Partial(f) == Take(LastRecord(f), Len(LastRecord(f)) - f.cut)

\* the grammar reports incomplete on the bytes w, and still does once the
\* closing line feed is appended to them
StillIncomplete(body, w) ==
    IF body
    THEN /\ Parse(vcd_command, w).k = "inc"
         /\ Parse(vcd_command, w \o <<"\n">>).k = "inc"
    ELSE /\ next_header_command(NewHeaderParser, w).k = "inc"
         /\ next_header_command(NewHeaderParser, w \o <<"\n">>).k = "inc"

\* no timestamp among the whole records not handed to the callback yet, so
\* that the next call of next_cycle goes on to the record that was cut
NoStopBeforePartial ==
    \A i \in (Len(emitted) + 1)..(Len(vcd.recs) - 1) : vcd.recs[i].t # "cycle"

\* C18: when the input ends in the middle of a record (after all reads the
\* grammar still reports incomplete), the operation that was parsing the
\* record (load_header, process_vcd_commands or next_cycle) returns
\* MissingData, for every chunk size
C18_MissingDataMidRecord ==
    [][ (vcd.cut > 0 /\ StillIncomplete(vcd.recs # <<>>, Partial(vcd)))
        => /\ ( /\ calls'.load = calls.load + 1
                /\ usage = "new" /\ vcd.recs = <<>> )
              => last'.res = "MissingData"
           /\ ( /\ calls'.process = calls.process + 1
                /\ usage = "loaded" /\ vcd.recs # <<>> )
              => last'.res = "MissingData"
           /\ ( /\ calls'.next = calls.next + 1
                /\ usage \in {"allocated", "running"} /\ vcd.recs # <<>>
                /\ NoStopBeforePartial )
              => last'.res = "MissingData" ]_vars

\* process_vcd_commands read a timestamp in chunks of one byte and met the
\* end of the input inside the vector change after it
C18_Witness ==
    /\ vcd.cut > 0 /\ StillIncomplete(TRUE, Partial(vcd))
    /\ parser.chunk_size = 1
    /\ last.op = "process_vcd_commands" /\ last.res = "MissingData"
    /\ Len(vcd.recs) = 2 /\ Len(emitted) = 1

\* next_cycle met the end of the input inside a record
C18_NextCycleWitness ==
    /\ vcd.cut > 0 /\ StillIncomplete(TRUE, Partial(vcd))
    /\ last.op = "next_cycle" /\ last.res = "MissingData"
    /\ calls.alloc > 0

\* load_header met the end of the input inside $enddefinitions $end
C18_LoadHeaderWitness ==
    /\ vcd.cut > 0 /\ StillIncomplete(FALSE, Partial(vcd))
    /\ vcd.recs = <<>> /\ vcd.sealed
    /\ last.op = "load_header" /\ last.res = "MissingData"

\* a cut after which the grammar reports an error, not incomplete, once
\* the closing line feed is appended
C18_NotIncompleteWitness ==
    /\ vcd.cut > 0 /\ ~StillIncomplete(vcd.recs # <<>>, Partial(vcd))
    /\ last.res = "ParseError"

\* the bytes the source delivers during a step
NewlyRead == (parser.buff.inner + 1)..(parser'.buff.inner)

\* C19: when the source delivers a byte >= 128, the refill that read it
\* fails with Utf8Error, and the load_header, process_vcd_commands or
\* next_cycle call in progress returns it, no later chunk being read; this
\* holds for a trimming and a non-trimming refill, wherever the byte lies
\* among the bytes newly read
C19_HighByteIsUtf8Error ==
    [][ (\E i \in NewlyRead : input[i] = HighByte)
        => /\ last'.res = "Utf8Error"
           /\ last'.op \in {"load_header", "process_vcd_commands",
                             "next_cycle"}
           /\ parser'.buff.inner < vcd.high + vcd.pad + parser.chunk_size ]_vars

\* load_header, reading two bytes at a time, emptied the window with two
\* line feeds after $enddefinitions $end and refilled it, trimming: the
\* refill read a line feed, which it trimmed, and the byte >= 128
C19_Witness ==
    /\ vcd.high = Len(RenderHeader(vcd.items, TRUE)) + 1
    /\ vcd.pad = MaxPad
    /\ parser.chunk_size = 2
    /\ last.op = "load_header" /\ last.res = "Utf8Error"
    /\ BufferData(parser.buff) = <<HighByte>>

\* the byte >= 128 is the last byte of the only chunk the simulation reads
C19_LastByteWitness ==
    /\ vcd.high = Len(RenderFile(vcd)) + 1
    /\ parser.chunk_size = SimChunk
    /\ last.op = "load_header" /\ last.res = "Utf8Error"

\* the byte >= 128 is met by next_cycle
C19_NextCycleWitness ==
    /\ last.op = "next_cycle" /\ last.res = "Utf8Error"

\* ------------------------------------------------------------------------
\* Properties of the tracking set, the value changes and the callback
\* ------------------------------------------------------------------------

\* the ids of the declarations that are not reals and pass the tracking set
AllocatableIds ==
    { header_parser.variables[i].id : i \in
        { j \in 1..Len(header_parser.variables) : Allocatable(j) } }

\* a step that is a call of next_cycle
NextCycleStep == calls'.next = calls.next + 1

\* the j-th command is handed to the callback during the step
HandedOver(j) == j \in (Len(emitted) + 1)..Len(emitted')

\* the j-th command handed over is a change of value n of an id that passes
\* the tracking set
TrackedChange(j) ==
    /\ emitted'[j].t = "ValueChange"
    /\ Tracked(emitted'[j].var_id)

\* C21: with a non-empty tracking set allocate_state allocates only ids of
\* the set, and a value change of an id outside the set leaves the whole
\* state vector unchanged; with an empty tracking set no filter applies:
\* every declared id that is not a real is allocated, and its changes are
\* written
C21_TrackingFilter ==
    /\ (last.op = "allocate_state" /\ last.res = "ok")
       => /\ DOMAIN var_offset = AllocatableIds
          /\ tracked_var # {} => DOMAIN var_offset \subseteq tracked_var
    /\ [][ NextCycleStep
           => /\ (\A j \in 1..Len(emitted') : HandedOver(j) => ~TrackedChange(j))
                 => state' = state
              /\ \A i \in 1..Len(state) :
                    state'[i] # state[i]
                    => \E j \in 1..Len(emitted') :
                          /\ HandedOver(j) /\ TrackedChange(j)
                          /\ i \in RangeOf(emitted'[j].var_id)
              /\ (tracked_var = {} /\ last'.res = "ok")
                 => \A j \in 1..Len(emitted') :
                       (HandedOver(j) /\ emitted'[j].t = "ValueChange")
                       => /\ emitted'[j].var_id \in DOMAIN var_offset
                          /\ \E i \in RangeOf(emitted'[j].var_id) :
                                state'[i] \in
                                  { logic_level(emitted'[j].val[n]) :
                                      n \in 1..Len(emitted'[j].val) } ]_vars

\* the layout holds both ids, the tracking set was given afterwards, and a
\* next_cycle handed over a change of the id outside the set: the vector is
\* as allocate_state left it
C21_Witness ==
    /\ tracked_var = {IdClk}
    /\ DOMAIN var_offset = {IdClk, IdVec}
    /\ last.op = "next_cycle" /\ last.res = "ok"
    /\ \E j \in 1..Len(emitted) :
          emitted[j].t = "ValueChange" /\ emitted[j].var_id = IdVec
    /\ state = Zeros(3)

\* the layout was computed under the tracking set and holds its id only
C21_FilteredLayoutWitness ==
    /\ tracked_var = {IdClk}
    /\ last.op = "allocate_state" /\ last.res = "ok"
    /\ DOMAIN var_offset = {IdClk}
    /\ Len(header_parser.variables) = 2

\* the ids the header declares as reals only
RealIds ==
    { header_parser.variables[i].id : i \in
        { j \in 1..Len(header_parser.variables) :
            header_parser.variables[j].kind = "VcdReal" } }
    \ { header_parser.variables[i].id : i \in
        { j \in 1..Len(header_parser.variables) :
            header_parser.variables[j].kind # "VcdReal" } }

\* the j-th command handed over is a Real change of an id declared as a real
RealChange(j) ==
    /\ emitted'[j].t = "ValueChange" /\ emitted'[j].vt = "Real"
    /\ emitted'[j].var_id \in RealIds

\* C22: in next_cycle a Real change of a variable the header declares as a
\* real is a no-op, with or without a tracking set: the simulation does
\* not abort, the state vector is left as the other changes make it, and
\* the commands after it are processed
C22_RealChangeIsNoOp ==
    [][ ( /\ NextCycleStep /\ usage \in {"allocated", "running"}
          /\ \E j \in 1..Len(emitted') : HandedOver(j) /\ RealChange(j) )
        => /\ ~aborted'
           /\ last'.res = "ok"
           /\ (\A j \in 1..Len(emitted') : HandedOver(j) => RealChange(j))
              => state' = state ]_vars

\* the command a record of the body is parsed into
CommandOf(r) ==
    CASE r.t = "cycle" -> SetCycle(r.c)
      [] r.t = "bit" -> ValueChange(VcdChange("Bit", r.val, r.id))
      [] r.t = "vec" -> ValueChange(VcdChange("Vector", r.val, r.id))
      [] r.t = "real" -> ValueChange(VcdChange("Real", r.val, r.id))
      [] r.t = "item" /\ r.val.t = "comment" -> Directive(W_comment)
      [] r.t = "item" /\ r.val.t = "dumpvars" -> Directive(W_dumpvars)
      [] r.t = "item" /\ r.val.t = "end" -> VcdEnd

\* process_vcd_commands with a callback that never stops, called once
\* after load_header over the bytes inp read in chunks of c
FullRun(inp, c) ==
    LET env == NewEnv("count", NewHeaderParser, <<>>, EmptyMap, EmptyMap, {}, <<>>)
        h == load_header(NewStreamParser(c), env, inp)
    IN  process_vcd_commands(h.sp, h.env, inp)

\* C23: process_vcd_commands hands each parsed command to the callback
\* once, in stream order; when the callback returns true the call stops and
\* returns normally with that command consumed, and the next call resumes
\* at the command after it: the commands handed over by calls that are
\* stopped and resumed are, put together, those of one call whose callback
\* never stops
C23_StopAndResume ==
    usage \in {"resuming", "failed"}
    => /\ \A j \in 1..Len(emitted) : emitted[j] = CommandOf(vcd.recs[j])
       /\ Len(emitted) <= Len(FullRun(input, parser.chunk_size).env.cmds)
       /\ Observed <= calls.process
       /\ (last.res = "ok" /\ ~done(parser))
          => /\ emitted # <<>>
             /\ emitted[Len(emitted)].t = "SetCycle"
       /\ (last.res # "ok" \/ done(parser))
          => /\ emitted = FullRun(input, parser.chunk_size).env.cmds
             /\ last.res = FullRun(input, parser.chunk_size).res

\* three calls, read in chunks of one byte: the first two stopped at the
\* two timestamps, the third handed over the bit change and met the end of
\* the input
C23_Witness ==
    /\ usage = "resuming" /\ calls.process = 3
    /\ parser.chunk_size = 1
    /\ done(parser)
    /\ vcd.recs = <<CycleRec(5), CycleRec(3), BitRec("1", IdClk)>>
    /\ Len(emitted) = 3

\* the $var directives of a header, in the order they are written
VarItems(items) == SelectSeq(items, LAMBDA it : it.t = "var")

\* descs holds one descriptor per $var directive of the file, in order
Declared(descs) ==
    /\ Len(descs) = Len(VarItems(vcd.items))
    /\ \A i \in 1..Len(descs) :
          /\ descs[i].id = VarItems(vcd.items)[i].id
          /\ descs[i].width = VarItems(vcd.items)[i].width
          /\ descs[i].kind = VariableKindFrom(VarItems(vcd.items)[i].kind)

\* the file ends before its $enddefinitions $end is whole
EndsBeforeSeal == ~vcd.sealed \/ (vcd.recs = <<>> /\ vcd.cut > 0)

\* C24: load_header returns success only after $enddefinitions $end has
\* been parsed: the header is then sealed and holds one descriptor per
\* $var directive, in the order of the declarations; when the stream ends
\* before that, load_header returns an error and the header stays unsealed
C24_LoadHeaderSeals ==
    [][ calls'.load = calls.load + 1
        => /\ last'.res = "ok"
              => /\ header_parser'.header_valid
                 /\ ~EndsBeforeSeal
                 /\ usage = "new" => Declared(header_parser'.variables)
           /\ (usage = "new" /\ EndsBeforeSeal)
              => /\ last'.res \notin {"ok", "panic"}
                 /\ ~header_parser'.header_valid ]_vars

\* load_header read both declarations in chunks of one byte and met the
\* end of the input inside $enddefinitions $end
C24_Witness ==
    /\ vcd.recs = <<>> /\ vcd.sealed /\ vcd.cut = 1
    /\ parser.chunk_size = 1
    /\ last.op = "load_header" /\ last.res = "MissingData"
    /\ Len(header_parser.variables) = 2
    /\ ~header_parser.header_valid

\* load_header sealed a header of two declarations
C24_SealedWitness ==
    /\ last.op = "load_header" /\ last.res = "ok"
    /\ header_parser.header_valid
    /\ Len(header_parser.variables) = 2

\* C25: between one allocate_state call and the next, no operation
\* (next_cycle, track_variables, header_info, load_header) changes the
\* length of the state vector
C25_LengthStable ==
    [][ ~AllocateStep => Len(state') = Len(state) ]_vars

\* after one allocate_state, a tracking request, header_info and a
\* next_cycle that wrote a vector, the vector has the length it was given
C25_Witness ==
    /\ calls.alloc = 1 /\ calls.track = 1 /\ calls.info = 1
    /\ last.op = "next_cycle" /\ last.res = "ok"
    /\ DOMAIN var_offset = {IdClk, IdVec}
    /\ state = <<0, 1, 0 - 4>>

\* the encoding of the levels, as a table
Level(c) ==
    CASE c = "0" -> 0
      [] c = "1" -> 1
      [] c = "U" -> 0 - 1
      [] c = "u" -> 0 - 1
      [] c = "W" -> 0 - 2
      [] c = "w" -> 0 - 2
      [] c = "Z" -> 0 - 3
      [] c = "z" -> 0 - 3
      [] c = "X" -> 0 - 4
      [] c = "x" -> 0 - 4
      [] OTHER -> 0 - 5

\* the characters the encoding is looked at on: ASCII, as the window is;
\* the grammar hands next_cycle those of BitChars only
LevelChars == Letters \cup Digits \cup {"-", "?", "$", "#", " ", "\n"}

\* the j-th command handed over is a Bit change that next_cycle's callback
\* writes, and the same call hands over no later change of its id
LastBitWrite(j) ==
    /\ HandedOver(j) /\ TrackedChange(j)
    /\ emitted'[j].vt = "Bit"
    /\ emitted'[j].var_id \in DOMAIN var_offset
    /\ \A n \in (j + 1)..Len(emitted') :
          ~(emitted'[n].t = "ValueChange"
            /\ emitted'[n].var_id = emitted'[j].var_id)

\* C26: the encoding of the levels maps 0 to 0, 1 to 1, U and u to -1, W
\* and w to -2, Z and z to -3, X and x to -4 and every other character to
\* -5, and a Bit change of ch writes the level of ch at the offset of the
\* variable
C26_BitWritesLevel ==
    /\ \A c \in LevelChars : logic_level(c) = Level(c)
    /\ [][ (NextCycleStep /\ last'.res = "ok")
           => \A j \in 1..Len(emitted') :
                 LastBitWrite(j)
                 => state'[var_offset[emitted'[j].var_id] + 1]
                        = Level(emitted'[j].val[1]) ]_vars

\* next_cycle wrote the level of Z at the offset of the bit
C26_Witness ==
    /\ last.op = "next_cycle" /\ last.res = "ok"
    /\ vcd.recs = <<BitRec("Z", IdClk)>>
    /\ IdClk \in DOMAIN var_offset
    /\ state[var_offset[IdClk] + 1] = 0 - 3

\* ------------------------------------------------------------------------
\* Properties of the end of the input and of the window
\* ------------------------------------------------------------------------

\* C27: when the last record of the input is whole but no whitespace
\* follows it before the end of the file, the line feed appended at the end
\* of the input lets it complete: process_vcd_commands hands that record to
\* the callback and returns without MissingData, for every chunk size and
\* every alignment of the chunks
C27_LastRecordCompletes ==
    ( /\ last.op = "process_vcd_commands" /\ usage = "running"
      /\ vcd.recs # <<>> /\ ~vcd.trail )
    => /\ last.res = "ok"
       /\ Len(emitted) = Len(vcd.recs)
       /\ emitted[Len(emitted)] = CommandOf(vcd.recs[Len(vcd.recs)])

\* the source has delivered all its bytes
Exhausted == parser.buff.inner = Len(input)

\* C28: after any completed parser operation (load_header,
\* process_vcd_commands, next_cycle), done is true exactly when the source
\* is exhausted and the live window is empty; and done is true after
\* process_vcd_commands has returned successfully with a callback that
\* never stops
C28_DoneIffExhaustedAndEmpty ==
    /\ last.op \in {"load_header", "process_vcd_commands", "next_cycle"}
       => (done(parser) <=> (Exhausted /\ BufferData(parser.buff) = <<>>))
    /\ (last.op = "process_vcd_commands" /\ last.res = "ok") => done(parser)

\* process_vcd_commands read a whole body in chunks of two bytes and
\* returned with the parser done
C28_Witness ==
    /\ last.op = "process_vcd_commands" /\ last.res = "ok"
    /\ calls.load = 1 /\ Len(emitted) = 2
    /\ parser.chunk_size = 2
    /\ done(parser) /\ Exhausted


\* a call that reads the input is made
ParserCallStep ==
    \/ calls'.load = calls.load + 1
    \/ calls'.process = calls.process + 1
    \/ calls'.next = calls.next + 1

\* every byte of w is below 128
IsAscii(w) == \A i \in 1..Len(w) : w[i] # HighByte

\* C29: every window that run_parser offers to a grammar function holds
\* only bytes below 128, over any sequence of parser calls, the calls made
\* after a call that returned Utf8Error included (the first window a call
\* offers is the window the call before it left)
C29_OfferedWindowIsAscii ==
    [][ ParserCallStep => IsAscii(BufferData(parser.buff)) ]_vars

\* C30: push appends one byte to the window in every state of the buffer:
\* the length grows by one and the data are the data before followed by the
\* byte, whether or not the window touches the end of the array
C30_PushAppends ==
    \A b \in {"\n", "1"} :
        /\ BufferLen(push(parser.buff, b)) = BufferLen(parser.buff) + 1
        /\ BufferData(push(parser.buff, b)) = Append(BufferData(parser.buff), b)


\* ------------------------------------------------------------------------
\* Properties of the buffer operations
\* ------------------------------------------------------------------------

\* the requests the buffer operations are tried with
Requests == {0, 1, 2, 3, SimChunk}

Min(a, b) == IF a < b THEN a ELSE b

\* refill(n) on the buffer b over the bytes src: the window keeps its place
\* and its bytes, the bytes read (at most n) follow them, the size grows by
\* the count returned, which is 0 only when a byte was asked for and the
\* source has none left
RefillAppends(b, n, src) ==
    /\ BufferRefill(b, n, src).b.offset = b.offset
    /\ BufferRefill(b, n, src).n <= n
    /\ BufferLen(BufferRefill(b, n, src).b) = BufferLen(b) + BufferRefill(b, n, src).n
    /\ BufferData(BufferRefill(b, n, src).b)
           = BufferData(b)
             \o SubSeq(src, b.inner + 1, b.inner + BufferRefill(b, n, src).n)
    /\ (n > 0 /\ BufferRefill(b, n, src).n = 0) => b.inner = Len(src)

\* consume(k) drops the first min(k, size) bytes of the window and leaves
\* the others as they are
ConsumeDrops(b, k) ==
    BufferData(consume(b, k)) = Drop(BufferData(b), Min(k, BufferLen(b)))

\* shift moves the window to the start of the array: of offset and size,
\* only offset changes, and the bytes of the window are the same
ShiftKeeps(b) ==
    /\ shift(b).offset = 0
    /\ BufferLen(shift(b)) = BufferLen(b)
    /\ BufferData(shift(b)) = BufferData(b)
    /\ available(shift(b)) = available(b)

\* C31: refill(n) leaves the bytes of the window unchanged and in place,
\* appends exactly the bytes read from the source (at most n), extends the
\* size by the count it returns and returns 0 only at the end of the
\* source; consume(k) drops the first min(k, size) bytes and shift changes
\* only the offset, and neither alters the bytes that remain
C31_BufferFrame ==
    /\ \A n \in Requests : RefillAppends(parser.buff, n, input)
    /\ \A k \in Requests : ConsumeDrops(parser.buff, k)
    /\ ShiftKeeps(parser.buff)

\* a window of at least two bytes with bytes left in the source: refill
\* appends to it and consume drops a part of it
C31_Witness ==
    /\ last.op = "load_header" /\ last.res = "ok"
    /\ BufferLen(parser.buff) >= 2
    /\ parser.buff.inner < Len(input)
    /\ BufferRefill(parser.buff, 2, input).n > 0

\* a window that starts past the start of the array: shift moves it
C31_ShiftWitness ==
    /\ parser.buff.offset > 0
    /\ BufferLen(parser.buff) > 0


\* ------------------------------------------------------------------------
\* Properties of the grammar
\* ------------------------------------------------------------------------

\* the scope a $scope directive of the file names
ScopeOf(it) ==
    ScopeFromStr(IF it.kind = <<>> THEN W_module ELSE it.kind,
                 IF it.id = <<>> THEN <<"m">> ELSE it.id)

\* the stack of scopes after the directives items: $scope pushes, $upscope
\* pops, and does nothing on an empty stack
RECURSIVE ScopeStack(_)
ScopeStack(items) ==
    IF items = <<>> THEN <<>>
    ELSE IF items[Len(items)].t = "scope"
    THEN Append(ScopeStack(Take(items, Len(items) - 1)), ScopeOf(items[Len(items)]))
    ELSE IF items[Len(items)].t = "upscope"
    THEN IF ScopeStack(Take(items, Len(items) - 1)) = <<>> THEN <<>>
         ELSE Take(ScopeStack(Take(items, Len(items) - 1)),
                   Len(ScopeStack(Take(items, Len(items) - 1))) - 1)
    ELSE ScopeStack(Take(items, Len(items) - 1))

\* the places of the $var directives among items, in order
RECURSIVE VarPlaces(_)
VarPlaces(items) ==
    IF items = <<>> THEN <<>>
    ELSE IF items[Len(items)].t \in {"var", "ranged"}
    THEN Append(VarPlaces(Take(items, Len(items) - 1)), Len(items))
    ELSE VarPlaces(Take(items, Len(items) - 1))

\* C32: the scope recorded in each variable descriptor is the stack of
\* scopes at its $var directive, the stack being what the $scope (push) and
\* $upscope (pop) directives before it leave, an $upscope on an empty stack
\* doing nothing and raising no error
C32_ScopeSnapshot ==
    /\ (last.op = "load_header" /\ calls.load = 1) => last.res = "ok"
    /\ header_parser.header_valid
       => /\ Len(header_parser.variables) = Len(VarPlaces(vcd.items))
          /\ \A i \in 1..Len(header_parser.variables) :
                header_parser.variables[i].scope
                    = ScopeStack(Take(vcd.items, VarPlaces(vcd.items)[i] - 1))

\* a variable declared inside two scopes that follow an $upscope on the
\* empty stack, read byte by byte
C32_Witness ==
    /\ last.op = "load_header" /\ last.res = "ok"
    /\ parser.chunk_size = 1
    /\ vcd.items = <<UpscopeItem, NamedScope(W_module, <<"t", "o", "p">>),
                     NamedScope(W_task, <<"t", "1">>), VarItem(W_wire, 1, IdClk)>>
    /\ Len(header_parser.variables) = 1
    /\ header_parser.variables[1].scope
           = <<[kind |-> "VcdModule", name |-> <<"t", "o", "p">>],
               [kind |-> "VcdTask", name |-> <<"t", "1">>]>>

\* a variable declared after the scope it was in is left
C32_PopWitness ==
    /\ last.op = "load_header" /\ last.res = "ok"
    /\ vcd.items = <<NamedScope(W_module, <<"t", "o", "p">>),
                     NamedScope(W_task, <<"t", "1">>), UpscopeItem,
                     VarItem(W_wire, 1, IdClk)>>
    /\ header_parser.variables[1].scope
           = <<[kind |-> "VcdModule", name |-> <<"t", "o", "p">>]>>


\* C33: in the body, $comment ... $end is handed over as the one command
\* Directive("comment"), its whole body swallowed; any other $word is
\* handed over as Directive(word) with its body left in place, so that the
\* records of that body follow as ordinary commands and the closing $end as
\* VcdEnd
C33_BodyDirectives ==
    (last.op = "process_vcd_commands" /\ usage = "running")
    => /\ last.res = "ok"
       /\ emitted = [i \in 1..Len(vcd.recs) |-> CommandOf(vcd.recs[i])]

\* a comment between a bit change and a timestamp, read byte by byte
C33_Witness ==
    /\ last.op = "process_vcd_commands" /\ last.res = "ok"
    /\ parser.chunk_size = 1
    /\ vcd.recs = <<BitRec("0", IdClk), ItemRec(CommentItem), CycleRec(5)>>
    /\ emitted = <<ValueChange(VcdChange("Bit", <<"0">>, IdClk)),
                   Directive(W_comment), SetCycle(5)>>

\* a $dumpvars section: the directive, its records and its $end
C33_DumpvarsWitness ==
    /\ last.op = "process_vcd_commands" /\ last.res = "ok"
    /\ Len(emitted) = 4
    /\ emitted[1] = Directive(W_dumpvars)
    /\ emitted[2] = ValueChange(VcdChange("Bit", <<"1">>, IdClk))
    /\ emitted[4] = VcdEnd


\* where the first $end followed by whitespace starts in w, 0 when there is
\* none
FirstEnd(w) ==
    IF \E i \in 1..Len(w) : /\ i + 4 <= Len(w)
                            /\ SubSeq(w, i, i + 3) = END_TAG
                            /\ IsMultispace(w[i + 4])
    THEN CHOOSE i \in 1..Len(w) :
            /\ i + 4 <= Len(w)
            /\ SubSeq(w, i, i + 3) = END_TAG
            /\ IsMultispace(w[i + 4])
            /\ \A j \in 1..(i - 1) : ~(/\ SubSeq(w, j, j + 3) = END_TAG
                                       /\ IsMultispace(w[j + 4]))
    ELSE 0

\* w without the whitespace it starts with
RECURSIVE SkipSpaces(_)
SkipSpaces(w) ==
    IF w # <<>> /\ IsMultispace(w[1]) THEN SkipSpaces(Tail(w)) ELSE w

\* C34: skip_until_vcd_end consumes every byte up to and including the
\* first $end that is followed by whitespace (and the whitespace that ends
\* it), skipping the dollars that are not part of such a token ($hello,
\* $date, $enddefinition), and reports incomplete, not failure, when the
\* window holds no $end followed by whitespace
C34_SkipUntilEnd ==
    last.op = "skip_until_vcd_end"
    => IF FirstEnd(input) = 0
       THEN last.res = "inc"
       ELSE /\ last.res = "ok"
            /\ BufferData(parser.buff)
                   = SkipSpaces(Drop(input, FirstEnd(input) + 3))

\* a $date, a $end right after it, whitespace and a word: the word is left
C34_Witness ==
    /\ last.op = "skip_until_vcd_end" /\ last.res = "ok"
    /\ input = <<"$", "d", "a", "t", "e", "$", "e", "n", "d", " ", "f", "o", "o">>
    /\ BufferData(parser.buff) = <<"f", "o", "o">>

\* $enddefinition and $end without whitespace after it: incomplete
C34_IncompleteWitness ==
    /\ last.op = "skip_until_vcd_end" /\ last.res = "inc"
    /\ input = <<"$", "e", "n", "d", "d", "e", "f", "i", "n", "i", "t", "i", "o",
                 "n", " ", "$", "e", "n", "d">>


\* p is the start of one of the records, and none of them whole
ProperPrefixOf(p, records) ==
    /\ \E r \in records : Len(p) < Len(r) /\ Take(r, Len(p)) = p
    /\ \A r \in records : ~(Len(r) <= Len(p) /\ Take(p, Len(r)) = r)

\* C35: for every valid directive of the header and every valid record of
\* the body, and every proper prefix of it that holds no complete record,
\* the grammar returns incomplete on the prefix, never failure, so that a
\* record cut anywhere by the end of a chunk is read again after a refill
C35_PrefixIsIncomplete ==
    /\ (last.op = "vcd_command" /\ ProperPrefixOf(input, BodyRecords))
       => last.res = "inc"
    /\ (last.op = "next_header_command" /\ ProperPrefixOf(input, HeaderRecords))
       => last.res = "inc"

\* a vector change cut after its bits
C35_Witness ==
    /\ last.op = "vcd_command" /\ last.res = "inc"
    /\ input = <<"b", "1", "x">>

\* a $var cut inside the $end that closes it
C35_HeaderWitness ==
    /\ last.op = "next_header_command" /\ last.res = "inc"
    /\ input = <<"$", "v", "a", "r", " ", "w", "i", "r", "e", " ", "1", " ", "!",
                 " ", "n", " ", "$", "e", "n", "d">>


\* the kind that bears the name of a kind token, End for any other token
KindNamed(tok) ==
    CASE tok = <<"e", "v", "e", "n", "t">> -> "VcdEvent"
      [] tok = <<"i", "n", "t", "e", "g", "e", "r">> -> "VcdInteger"
      [] tok = <<"p", "a", "r", "a", "m", "e", "t", "e", "r">> -> "VcdParameter"
      [] tok = <<"r", "e", "a", "l">> -> "VcdReal"
      [] tok = <<"r", "e", "g">> -> "VcdReg"
      [] tok = <<"s", "u", "p", "p", "l", "y", "0">> -> "VcdSupply0"
      [] tok = <<"s", "u", "p", "p", "l", "y", "1">> -> "VcdSupply1"
      [] tok = <<"t", "i", "m", "e">> -> "VcdTime"
      [] tok = <<"t", "r", "i">> -> "VcdTri"
      [] tok = <<"t", "r", "i", "a", "n", "d">> -> "VcdTriand"
      [] tok = <<"t", "r", "i", "o", "r">> -> "VcdTrior"
      [] tok = <<"t", "r", "i", "r", "e", "g">> -> "VcdTrireg"
      [] tok = <<"t", "r", "i", "0">> -> "VcdTri0"
      [] tok = <<"t", "r", "i", "1">> -> "VcdTri1"
      [] tok = <<"w", "a", "n", "d">> -> "VcdWand"
      [] tok = <<"w", "i", "r", "e">> -> "VcdWire"
      [] tok = <<"w", "o", "r">> -> "VcdWor"
      [] OTHER -> "End"

\* C39: the table of kinds maps every $var kind token it knows (event,
\* integer, parameter, real, reg, supply0, supply1, time, tri, triand,
\* trior, trireg, tri0, tri1, wand, wire, wor) to the kind of the same name,
\* each to a kind of its own, and every other token to End: the kind
\* recorded for a $var is the kind named by its token
C39_KindTable ==
    header_parser.header_valid
    => \A i \in 1..Len(header_parser.variables) :
          header_parser.variables[i].kind
              = KindNamed(vcd.items[VarPlaces(vcd.items)[i]].kind)

\* C39 but for wand: every other token is mapped as the table says
C39_KindTableButWand ==
    /\ \A tok \in (KindTokens \cup OtherTokens) \ {<<"w", "a", "n", "d">>} :
          VariableKindFrom(tok) = KindNamed(tok)
    /\ VariableKindFrom(<<"w", "a", "n", "d">>) = "VcdTriand"


\* C38: a $var whose width is written negative is never recorded in the
\* header with another width (the width is asserted non-negative where it
\* is used): no variable descriptor holds a width that differs from the
\* number written in the file
C38_WidthAsWritten ==
    \A i \in 1..Len(header_parser.variables) :
        header_parser.variables[i].width
            = vcd.items[VarPlaces(vcd.items)[i]].width


\* ------------------------------------------------------------------------
\* Properties of the writes and of the errors of next_cycle
\* ------------------------------------------------------------------------

\* the j-th command handed over is a Bit or Vector change of an id that has
\* an offset
WrittenChange(j) ==
    /\ HandedOver(j)
    /\ emitted'[j].t = "ValueChange"
    /\ emitted'[j].vt \in {"Bit", "Vector"}
    /\ emitted'[j].var_id \in DOMAIN var_offset

\* C37: for every header the parser accepts, whatever the widths declared
\* (0 included), every write of next_cycle for a Bit or Vector change of a
\* variable lands inside the range [offset, offset + width) of that
\* variable: the bytes of the state vector outside the range are unchanged
\* and no write falls outside the vector
C37_WritesInsideOwnRange ==
    [][ NextCycleStep
        => /\ Len(state') = Len(state)
           /\ \A i \in 1..Len(state) :
                 state'[i] # state[i]
                 => \E j \in 1..Len(emitted') :
                       /\ WrittenChange(j)
                       /\ i > var_offset[emitted'[j].var_id]
                       /\ i <= var_offset[emitted'[j].var_id]
                                 + var_width[emitted'[j].var_id]
           /\ \A j \in 1..Len(emitted') :
                 (WrittenChange(j) /\ emitted'[j].vt = "Bit")
                 => var_offset[emitted'[j].var_id] < Len(state) ]_vars


\* the errors next_cycle returns (the reads of the model never fail, so
\* IoError is not among them)
CycleErrors == {"ParseError", "MissingData", "Utf8Error"}

\* C40: when next_cycle returns an error, previous_cycle and current_cycle
\* are left unchanged; and after a ParseError the window is left as it was,
\* so that the next call of next_cycle returns ParseError again and leaves
\* the state vector unchanged
C40_ErrorsLeaveCycles ==
    /\ last.op = "next_cycle" /\ last.res = "ParseError"
       => BufferData(parser.buff) # <<>>
    /\ [][ NextCycleStep
           => /\ last'.res \in CycleErrors
                 => /\ previous_cycle' = previous_cycle
                    /\ current_cycle' = current_cycle
                    /\ returned' = returned
              /\ (last.op = "next_cycle" /\ last.res = "ParseError")
                 => /\ last'.op = "next_cycle" /\ last'.res = "ParseError"
                    /\ BufferData(parser'.buff) = BufferData(parser.buff)
                    /\ state' = state ]_vars

\* next_cycle has returned ParseError twice in a row, after a call that had
\* set the cycles
C40_Witness ==
    /\ last.op = "next_cycle" /\ last.res = "ParseError"
    /\ calls.next = MaxNext
    /\ Len(returned) = 1
    /\ current_cycle >= 0

\* next_cycle has returned MissingData after a call that had set the cycles
\* (over a file that is cut short)
C40_MissingDataWitness ==
    /\ last.op = "next_cycle" /\ last.res = "MissingData"
    /\ Len(returned) >= 1
    /\ current_cycle >= 0


\* ------------------------------------------------------------------------
\* Properties of the loops
\* ------------------------------------------------------------------------

\* the places of a call in progress: each is the guard of one turn
TurnPlaces ==
    {"run_parser", "incomplete", "ok, stop", "ok, go on",
     "trim, first", "trim, stop", "trim, go on"}

\* f has returned Ok in this step
ParsedOk ==
    /\ usage = "run_parser"
    /\ usage' \in {"ok, stop", "ok, go on"}

\* C36: on every finite input and with every chunk size, each call of
\* load_header and of process_vcd_commands (which is all next_cycle runs)
\* returns in the end, with a result or an error: the loop of run_parser
\* that refills and parses again and the loop of trim_refill over chunks of
\* whitespace do not run forever, and every parse step that succeeds
\* consumes at least one byte
C36_CallsReturn ==
    /\ Pending ~> ~Pending
    /\ [](Pending => usage \in TurnPlaces)
    /\ [][ ParsedOk => BufferLen(parser'.buff) < BufferLen(parser.buff) ]_vars

\* process_vcd_commands has returned after reading, byte by byte, a body
\* whose records are MaxPad line feeds apart
C36_Witness ==
    /\ ~Pending
    /\ last.op = "process_vcd_commands" /\ last.res = "ok"
    /\ parser.chunk_size = 1
    /\ vcd.pad = MaxPad
    /\ Len(emitted) = 2
    /\ done(parser)

====
